---- MODULE Spec2Model ----
(***************************************************************************)
(* A model of the TesseractOCR wrapper (src/src/japanese_ocr/              *)
(* tesseract_ocr.py): the configuration value, the single-image processor, *)
(* the PDF page pipeline and the batch dispatcher, over an explicit disk.   *)
(*                                                                         *)
(* A path is a sequence of pieces, <<"in", "a", ".png">> for in/a.png: a   *)
(* piece of Exts is the extension of the piece before it, every other      *)
(* piece is a directory or a file stem.  str(path) is the path itself, so  *)
(* a command token such as "pdf" is the one-piece sequence <<"pdf">>, the  *)
(* same value as the relative path ./pdf.                                  *)
(*                                                                         *)
(* An optional value (None or a value) is <<>> or <<value>>.               *)
(***************************************************************************)
EXTENDS Integers, Sequences, FiniteSets, TLC

VARIABLES
  disk,   \* the file system: existing path -> entry
  ntmp,   \* temporary directories made so far (names are never reused)
  env,    \* the optional collaborators: PDF_SUPPORT, PyPDF2
  ocr,    \* the TesseractOCR instance: default_config, default_output_dir
  last,   \* the last call: its arguments, the disk before it, its outcome
  ncall   \* calls made so far

vars == <<disk, ntmp, env, ocr, last, ncall>>

(***************************************************************************)
(* Bounds of the model.                                                    *)
(***************************************************************************)
\* top-level calls in one behaviour
MaxCalls == 2
\* words of a string given to config_from_string
MaxWords == 4
\* largest magnitude of a numeral given to int()
MaxNumeral == 13
\* pages of a rasterized PDF
MaxPages == 2

None == <<>>
Some(v) == <<v>>

(***************************************************************************)
(* Paths.                                                                  *)
(***************************************************************************)
ImageExts == {".png", ".jpg", ".jpeg", ".tiff", ".tif", ".bmp", ".gif"}

SUPPORTED_IMAGE_FORMATS == ImageExts

\* the extensions that occur as pieces of the model's paths
Exts == ImageExts \cup {".PNG", ".pdf", ".PDF", ".txt", ".TXT", ".xyz"}

\* str.lower() on the extensions of the model
Lower(e) ==
  CASE e = ".PNG" -> ".png"
    [] e = ".PDF" -> ".pdf"
    [] e = ".TXT" -> ".txt"
    [] OTHER -> e

HasExt(p) == Len(p) >= 2 /\ p[Len(p)] \in Exts

\* Path.suffix
Suffix(p) == IF HasExt(p) THEN p[Len(p)] ELSE ""

\* Path.stem
Stem(p) == IF HasExt(p) THEN p[Len(p) - 1] ELSE IF Len(p) = 0 THEN "" ELSE p[Len(p)]

\* os.path.dirname / Path.parent
Parent(p) == SubSeq(p, 1, Len(p) - (IF HasExt(p) THEN 2 ELSE 1))

IsPrefix(d, p) == Len(d) <= Len(p) /\ SubSeq(p, 1, Len(d)) = d

\* tempfile.gettempdir()
TMP_ROOT == <<"tmp">>

DigitStr == <<"0", "1", "2", "3", "4", "5", "6", "7", "8", "9">>

RECURSIVE NatStr(_)
\* str(n) of a natural number
NatStr(n) == IF n < 10 THEN DigitStr[n + 1] ELSE NatStr(n \div 10) \o DigitStr[(n % 10) + 1]

(***************************************************************************)
(* The disk: a function from the existing paths to what is stored there.   *)
(* An image carries the way the engine behaves on it (beh), a PDF carries  *)
(* the page images the rasterizer makes of it, a text file its text, a     *)
(* list file its lines.                                                    *)
(***************************************************************************)
NoBeh == [exit |-> 0, txt |-> FALSE, text |-> "", rexit |-> 0, rtxt |-> FALSE]

Entry(kind, beh, pages, text, lines) ==
  [kind |-> kind, beh |-> beh, pages |-> pages, text |-> text, lines |-> lines]

DirEntry == Entry("dir", NoBeh, <<>>, "", <<>>)
ImgEntry(beh) == Entry("img", beh, <<>>, "", <<>>)
PdfEntry(pages) == Entry("pdf", NoBeh, pages, "", <<>>)
TxtEntry(text) == Entry("txt", NoBeh, <<>>, text, <<>>)
ListEntry(lines) == Entry("list", NoBeh, <<>>, "", lines)
OutPdfEntry == Entry("outpdf", NoBeh, <<>>, "", <<>>)
OtherEntry == Entry("other", NoBeh, <<>>, "", <<>>)

Exists(d, p) == p \in DOMAIN d
IsDir(d, p) == Exists(d, p) /\ d[p].kind = "dir"
IsFile(d, p) == Exists(d, p) /\ d[p].kind # "dir"

Put(d, p, e) == [q \in (DOMAIN d) \cup {p} |-> IF q = p THEN e ELSE d[q]]

\* Path.unlink
Unlink(d, p) == [q \in (DOMAIN d) \ {p} |-> d[q]]

\* shutil.rmtree, and the exit of tempfile.TemporaryDirectory
RmTree(d, p) == [q \in {r \in DOMAIN d : ~IsPrefix(p, r)} |-> d[q]]

\* os.makedirs(p, exist_ok=True): p and its missing ancestors become directories
MakeDirs(d, p) ==
  [q \in (DOMAIN d) \cup {SubSeq(p, 1, k) : k \in 1..Len(p)} |->
     IF q \in DOMAIN d THEN d[q] ELSE DirEntry]

\* a machine state threaded through the operations: the disk, the number of
\* temporary directories made so far, the engine commands run so far
Mach(d, n, c) == [disk |-> d, ntmp |-> n, calls |-> c]

\* what an operation yields: the machine after it, the value it returns
\* (None or Some(text)) and the exception it raises ("" for none);
\* for process_file also the branch it took (route) and the output directory
\* and configuration it resolved; for process the classification (cls); for
\* a batch the discovered items, the result mapping and, item by item, what
\* process_file returned or raised (outs)
Out(m, ret, err) ==
  [m |-> m, ret |-> ret, err |-> err, route |-> "", out_dir |-> None,
   cfg |-> None, cls |-> "", items |-> <<>>, results |-> <<>>, outs |-> <<>>]

\* tempfile.mkdtemp / tempfile.TemporaryDirectory: a fresh directory under TMP_ROOT
TmpName(m) == TMP_ROOT \o <<"tmp" \o NatStr(m.ntmp + 1)>>

MkDTemp(m) == Mach(Put(m.disk, TmpName(m), DirEntry), m.ntmp + 1, m.calls)

(***************************************************************************)
(* TesseractConfig.                                                        *)
(***************************************************************************)
Config(lang, dpi, psm, oem, cs, pdf, td) ==
  [lang |-> lang, dpi |-> dpi, psm |-> psm, oem |-> oem,
   config_string |-> cs, output_pdf |-> pdf, tessdata_dir |-> td]

\* TesseractConfig(): config_string is the sequence of its atoms, each a
\* word or the blank " "; tessdata_dir is None or Some(path)
DefaultConfig == Config("eng", 300, 3, 3, <<>>, FALSE, None)

Tok(s) == <<s>>

\* str.split(): the words of a string, in order (an empty atom adds nothing)
Split(cs) == SelectSeq(cs, LAMBDA a : a \notin {" ", ""})

RECURSIVE Toks(_)
Toks(ws) == IF ws = <<>> THEN <<>> ELSE <<Tok(Head(ws))>> \o Toks(Tail(ws))

\* `if self.tessdata_dir`: set, and not the empty string
HasTessdataDir(c) == c.tessdata_dir # None /\ c.tessdata_dir[1] # Tok("")

\* a to_cmd_args that puts the data directory before the format token
to_cmd_args_DirFirst(c) ==
  <<Tok("-l"), Tok(c.lang)>>
  \o <<Tok("--psm"), Tok(NatStr(c.psm))>>
  \o <<Tok("--oem"), Tok(NatStr(c.oem))>>
  \o (IF c.config_string # <<>> THEN Toks(Split(c.config_string)) ELSE <<>>)
  \o (IF HasTessdataDir(c) THEN <<Tok("--tessdata-dir"), c.tessdata_dir[1]>> ELSE <<>>)
  \o (IF c.output_pdf THEN <<Tok("pdf")>> ELSE <<>>)

\* a to_cmd_args that leaves out the engine mode
to_cmd_args_NoOem(c) ==
  <<Tok("-l"), Tok(c.lang)>>
  \o <<Tok("--psm"), Tok(NatStr(c.psm))>>
  \o (IF c.config_string # <<>> THEN Toks(Split(c.config_string)) ELSE <<>>)
  \o (IF c.output_pdf THEN <<Tok("pdf")>> ELSE <<>>)
  \o (IF HasTessdataDir(c) THEN <<Tok("--tessdata-dir"), c.tessdata_dir[1]>> ELSE <<>>)

to_cmd_args(c) ==
  <<Tok("-l"), Tok(c.lang)>>
  \o <<Tok("--psm"), Tok(NatStr(c.psm))>>
  \o <<Tok("--oem"), Tok(NatStr(c.oem))>>
  \o (IF c.config_string # <<>> THEN Toks(Split(c.config_string)) ELSE <<>>)
  \o (IF c.output_pdf THEN <<Tok("pdf")>> ELSE <<>>)
  \o (IF HasTessdataDir(c) THEN <<Tok("--tessdata-dir"), c.tessdata_dir[1]>> ELSE <<>>)

(***************************************************************************)
(* The external OCR engine, `<engine> <input> <output base> <tokens>`.     *)
(* It exits non-zero on an unreadable input or as the image says; on exit  *)
(* 0 it writes <output base>.pdf when the configfile token pdf is given,   *)
(* and <output base>.txt when the token txt is given or no format token is *)
(* given (an image may say that the engine fails to write its text).       *)
(***************************************************************************)
TESSERACT == Tok("tesseract")

\* engine options that take the next token as their value
ValueFlags == {Tok("-l"), Tok("--psm"), Tok("--oem"), Tok("--tessdata-dir")}

RECURSIVE AskedFormats(_, _)
\* the format tokens among the tokens of cmd from position i on
AskedFormats(cmd, i) ==
  IF i > Len(cmd) THEN {}
  ELSE IF cmd[i] \in ValueFlags THEN AskedFormats(cmd, i + 2)
  ELSE (IF cmd[i] \in {Tok("pdf"), Tok("txt")} THEN {cmd[i][1]} ELSE {})
       \cup AskedFormats(cmd, i + 1)

EngineFormats(cmd) ==
  LET asked == AskedFormats(cmd, 4) IN IF asked = {} THEN {"txt"} ELSE asked

\* the forced re-run carries the language flag only
IsForcedTextRun(cmd) == \A i \in 1..Len(cmd) : cmd[i] # Tok("--psm")

\* subprocess.run(cmd): the machine after the run and the exit code
EngineRun(m, cmd) ==
  LET d == m.disk
      readable == /\ Len(cmd) >= 3
                  /\ Exists(d, cmd[2]) /\ d[cmd[2]].kind = "img"
                  /\ IsDir(d, Parent(cmd[3]))
      beh == d[cmd[2]].beh
      forced == IsForcedTextRun(cmd)
      rc == IF ~readable THEN 1 ELSE IF forced THEN beh.rexit ELSE beh.exit
      wtxt == IF forced THEN beh.rtxt ELSE beh.txt
      fm == EngineFormats(cmd)
      d1 == IF rc = 0 /\ "txt" \in fm /\ wtxt
            THEN Put(d, cmd[3] \o <<".txt">>, TxtEntry(beh.text)) ELSE d
      d2 == IF rc = 0 /\ "pdf" \in fm
            THEN Put(d1, cmd[3] \o <<".pdf">>, OutPdfEntry) ELSE d1
  IN [m |-> Mach(d2, m.ntmp, Append(m.calls, cmd)), rc |-> rc]

(***************************************************************************)
(* TesseractOCR._process_image.                                            *)
(***************************************************************************)
\* list.remove(x): the list without the first occurrence of x
RemoveFirst(s, x) ==
  IF \E i \in 1..Len(s) : s[i] = x
  THEN LET i == CHOOSE j \in 1..Len(s) : s[j] = x /\ \A k \in 1..(j - 1) : s[k] # x
       IN SubSeq(s, 1, i - 1) \o SubSeq(s, i + 1, Len(s))
  ELSE s

\* out_base: the basename override if given (and not empty), else the image stem
OutBase(image_path, output_filename_base) ==
  IF output_filename_base # None /\ output_filename_base[1] # ""
  THEN output_filename_base[1] ELSE Stem(image_path)

\* the machine after the output location is set up
ImageSetup(m, output_dir) ==
  IF output_dir # None THEN Mach(MakeDirs(m.disk, output_dir[1]), m.ntmp, m.calls)
  ELSE MkDTemp(m)

\* an out_path that steps aside when <output_dir>/<out_base>.txt is there
OutPath_StepAside(m, image_path, output_dir, output_filename_base) ==
  IF output_dir = None
  THEN TmpName(m) \o <<OutBase(image_path, output_filename_base)>>
  ELSE IF Exists(m.disk, output_dir[1]
                         \o <<OutBase(image_path, output_filename_base), ".txt">>)
  THEN output_dir[1] \o <<OutBase(image_path, output_filename_base) \o "_1">>
  ELSE output_dir[1] \o <<OutBase(image_path, output_filename_base)>>

\* out_path: <output_dir>/<out_base>, or <fresh temporary directory>/<out_base>
OutPath(m, image_path, output_dir, output_filename_base) ==
  (IF output_dir # None THEN output_dir[1] ELSE TmpName(m))
  \o <<OutBase(image_path, output_filename_base)>>

\* output_formats
OutputFormats(config, return_text) ==
  (IF config.output_pdf THEN <<Tok("pdf")>> ELSE <<>>)
  \o (IF return_text /\ config.output_pdf THEN <<Tok("txt")>> ELSE <<>>)

\* an ImageCmd that drops "pdf" and forgets cmd.extend(output_formats)
ImageCmd_NoExtend(image_path, out_path, config, return_text) ==
  LET base == <<TESSERACT, image_path, out_path>> \o to_cmd_args(config)
      fmts == OutputFormats(config, return_text)
  IN IF fmts # <<>> THEN RemoveFirst(base, Tok("pdf")) ELSE base

\* cmd, the command of the first engine run
ImageCmd(image_path, out_path, config, return_text) ==
  LET base == <<TESSERACT, image_path, out_path>> \o to_cmd_args(config)
      fmts == OutputFormats(config, return_text)
  IN IF fmts # <<>> THEN RemoveFirst(base, Tok("pdf")) \o fmts ELSE base

\* txt_cmd, the command of the forced re-run
TxtCmd(image_path, out_path, config) ==
  <<TESSERACT, image_path, out_path, Tok("-l"), Tok(config.lang)>>

\* the clean-up of the temporary output (inside `if return_text`)
ImageCleanup(m, output_dir, out_path) ==
  LET txt_output == out_path \o <<".txt">>
      tmp_path == Parent(out_path)
  IN IF output_dir = None /\ Exists(m.disk, tmp_path)
     THEN LET d1 == IF Exists(m.disk, txt_output) /\ output_dir = None
                    THEN Unlink(m.disk, txt_output) ELSE m.disk
              d2 == IF Exists(d1, tmp_path) /\ IsPrefix(TMP_ROOT, tmp_path)
                    THEN RmTree(d1, tmp_path) ELSE d1
          IN Mach(d2, m.ntmp, m.calls)
     ELSE m

\* the outcome of the forced re-run r: CalledProcessError on a non-zero exit
\* (check=True), else the text if the file is there now, else None
ImageAfterForcedRun(r, output_dir, out_path) ==
  IF r.rc # 0 THEN Out(r.m, None, "CalledProcessError")
  ELSE IF Exists(r.m.disk, out_path \o <<".txt">>)
  THEN Out(ImageCleanup(r.m, output_dir, out_path),
           Some(r.m.disk[out_path \o <<".txt">>].text), "")
  ELSE Out(ImageCleanup(r.m, output_dir, out_path), None, "")

\* the text read back after a run that exited 0, with the forced re-run
ImageReadText(m, image_path, output_dir, out_path, config) ==
  IF Exists(m.disk, out_path \o <<".txt">>)
  THEN Out(ImageCleanup(m, output_dir, out_path),
           Some(m.disk[out_path \o <<".txt">>].text), "")
  ELSE ImageAfterForcedRun(EngineRun(m, TxtCmd(image_path, out_path, config)),
                           output_dir, out_path)

\* the outcome of the first engine run r: RuntimeError on a non-zero exit,
\* else the text (when asked for) and the clean-up
ImageAfterRun(r, image_path, output_dir, out_path, config, return_text) ==
  IF r.rc # 0 THEN Out(r.m, None, "RuntimeError")
  ELSE IF return_text
  THEN ImageReadText(r.m, image_path, output_dir, out_path, config)
  ELSE Out(r.m, None, "")

\* _process_image with the output base path resolved
ImageAt(m, image_path, output_dir, out_path, config, return_text) ==
  ImageAfterRun(EngineRun(ImageSetup(m, output_dir),
                          ImageCmd(image_path, out_path, config, return_text)),
                image_path, output_dir, out_path, config, return_text)

process_image(m, image_path, output_dir, config, output_filename_base, return_text) ==
  ImageAt(m, image_path, output_dir,
          OutPath(m, image_path, output_dir, output_filename_base),
          config, return_text)

(***************************************************************************)
(* TesseractOCR._process_pdf.                                              *)
(***************************************************************************)
RECURSIVE JoinText(_)
\* "\n\n".join(texts)
JoinText(texts) ==
  IF texts = <<>> THEN ""
  ELSE IF Len(texts) = 1 THEN texts[1]
  ELSE texts[1] \o "\n\n" \o JoinText(Tail(texts))

\* pdf2image.convert_from_path: the page images of the PDF, in page order
\* (an error of the rasterizer when the file is no PDF)
Rasterize(d, pdf_path) ==
  IF Exists(d, pdf_path) /\ d[pdf_path].kind = "pdf"
  THEN [pages |-> d[pdf_path].pages, err |-> ""]
  ELSE [pages |-> <<>>, err |-> "PDFPageCountError"]

\* a base_name that ignores the basename override
PdfBaseName_StemOnly(pdf_path, output_filename_base) == Stem(pdf_path)

\* base_name
PdfBaseName(pdf_path, output_filename_base) == OutBase(pdf_path, output_filename_base)

\* pages_dir: <output_dir>/pages/<base_name>, or None
PagesDir(pdf_path, output_dir, output_filename_base, combine_output) ==
  IF output_dir # None /\ combine_output
  THEN Some(output_dir[1] \o <<"pages", PdfBaseName(pdf_path, output_filename_base)>>)
  ELSE None

\* page_filename of page n
PageFilename(pdf_path, output_filename_base, n) ==
  (IF output_filename_base # None /\ output_filename_base[1] # ""
   THEN output_filename_base[1] ELSE Stem(pdf_path)) \o "_page_" \o NatStr(n)

\* img_path of page n in the temporary directory
PageImage(tmp_dir, n) == tmp_dir \o <<"page_" \o NatStr(n), ".png">>

RECURSIVE SavePages(_, _, _, _)
\* image.save for the pages n.. of the rasterized PDF
SavePages(d, tmp_dir, pages, n) ==
  IF n > Len(pages) THEN d
  ELSE SavePages(Put(d, PageImage(tmp_dir, n), ImgEntry(pages[n])), tmp_dir, pages, n + 1)

\* current_output_dir
CurrentOutputDir(pdf_path, output_dir, output_filename_base, combine_output) ==
  LET pages_dir == PagesDir(pdf_path, output_dir, output_filename_base, combine_output)
  IN IF pages_dir # None THEN pages_dir ELSE output_dir

\* the state of the page loop: the machine, all_text, output_files["pdf"]
\* and the exception that ended the loop ("" for none)
LoopState(m, all_text, pdfs, err) ==
  [m |-> m, all_text |-> all_text, pdfs |-> pdfs, err |-> err]

\* what the loop keeps of the outcome r of _process_image on one page, whose
\* searchable PDF would be pdf_file (None when there is no output directory)
PageCollect(st, r, pdf_file, config, combine_output) ==
  IF r.err # "" THEN LoopState(r.m, st.all_text, st.pdfs, r.err)
  ELSE IF r.ret # None /\ r.ret[1] # ""
  THEN LoopState(r.m, Append(st.all_text, r.ret[1]),
                 IF combine_output /\ pdf_file # None /\ config.output_pdf
                    /\ Exists(r.m.disk, pdf_file[1])
                 THEN Append(st.pdfs, pdf_file[1]) ELSE st.pdfs,
                 "")
  ELSE LoopState(r.m, st.all_text, st.pdfs, "")

\* a turn of the page loop that asks for the text only when the caller does
PageAt_CallerTextOnly(st, img_path, cur, page_filename, config, return_text, combine_output) ==
  PageCollect(st,
              process_image(st.m, img_path, cur, config, Some(page_filename),
                            return_text),
              IF cur # None THEN Some(cur[1] \o <<page_filename, ".pdf">>) ELSE None,
              config, combine_output)

\* one turn of the page loop, page n written as page_filename under cur
PageAt(st, img_path, cur, page_filename, config, return_text, combine_output) ==
  PageCollect(st,
              process_image(st.m, img_path, cur, config, Some(page_filename),
                            return_text \/ combine_output),
              IF cur # None THEN Some(cur[1] \o <<page_filename, ".pdf">>) ELSE None,
              config, combine_output)

PageStep(st, tmp_dir, n, pdf_path, output_dir, config, output_filename_base, return_text, combine_output) ==
  PageAt(st, PageImage(tmp_dir, n),
         CurrentOutputDir(pdf_path, output_dir, output_filename_base, combine_output),
         PageFilename(pdf_path, output_filename_base, n),
         config, return_text, combine_output)

RECURSIVE PageLoop_GoOn(_, _, _, _, _, _, _, _, _, _)
\* a page loop that goes on to the next page after a page has raised
PageLoop_GoOn(st, tmp_dir, n, npages, pdf_path, output_dir, config, output_filename_base, return_text, combine_output) ==
  IF n > npages THEN st
  ELSE PageLoop_GoOn(PageStep(st, tmp_dir, n, pdf_path, output_dir, config,
                              output_filename_base, return_text, combine_output),
                     tmp_dir, n + 1, npages, pdf_path, output_dir, config,
                     output_filename_base, return_text, combine_output)

RECURSIVE PageLoop(_, _, _, _, _, _, _, _, _, _)
\* the page loop from page n on; it stops at the first page that raises
PageLoop(st, tmp_dir, n, npages, pdf_path, output_dir, config, output_filename_base, return_text, combine_output) ==
  IF n > npages \/ st.err # "" THEN st
  ELSE PageLoop(PageStep(st, tmp_dir, n, pdf_path, output_dir, config,
                         output_filename_base, return_text, combine_output),
                tmp_dir, n + 1, npages, pdf_path, output_dir, config,
                output_filename_base, return_text, combine_output)

\* combined outputs that are written only when the merge can be made
CombinedFiles_AllOrNothing(d, all_text, pdfs, txt_path, pdf_path_out, config) ==
  IF config.output_pdf /\ pdfs # <<>>
  THEN IF env.pypdf2 = "ok"
       THEN Put(Put(d, txt_path, TxtEntry(JoinText(all_text))),
                pdf_path_out, Entry("outpdf", NoBeh, <<>>, "", pdfs))
       ELSE d
  ELSE Put(d, txt_path, TxtEntry(JoinText(all_text)))

\* the combined text file, and the merged PDF when PyPDF2 is there and works
CombinedFiles(d, all_text, pdfs, txt_path, pdf_path_out, config) ==
  IF config.output_pdf /\ pdfs # <<>> /\ env.pypdf2 = "ok"
  THEN Put(Put(d, txt_path, TxtEntry(JoinText(all_text))),
           pdf_path_out, Entry("outpdf", NoBeh, <<>>, "", pdfs))
  ELSE Put(d, txt_path, TxtEntry(JoinText(all_text)))

\* the disk after the combined outputs are written
CombineOutputs(d, all_text, pdfs, pdf_path, output_dir, config, output_filename_base, combine_output) ==
  IF combine_output /\ output_dir # None /\ all_text # <<>>
  THEN CombinedFiles(d, all_text, pdfs,
                     output_dir[1] \o <<PdfBaseName(pdf_path, output_filename_base), ".txt">>,
                     output_dir[1] \o <<PdfBaseName(pdf_path, output_filename_base), ".pdf">>,
                     config)
  ELSE d

\* open(combined_txt_path, 'w') raises: the combined text is to be written
\* and its path is a directory
CombineFails(d, all_text, pdf_path, output_dir, output_filename_base, combine_output) ==
  /\ combine_output /\ output_dir # None /\ all_text # <<>>
  /\ IsDir(d, output_dir[1] \o <<PdfBaseName(pdf_path, output_filename_base), ".txt">>)

\* an end of _process_pdf that removes the temporary directory on the normal
\* return only
PdfFinish_KeepOnError(st, tmp_dir, pdf_path, output_dir, config, output_filename_base, return_text, combine_output) ==
  IF st.err # ""
  THEN Out(st.m, None, st.err)
  ELSE IF CombineFails(st.m.disk, st.all_text, pdf_path, output_dir,
                       output_filename_base, combine_output)
  THEN Out(st.m, None, "IsADirectoryError")
  ELSE Out(Mach(RmTree(CombineOutputs(st.m.disk, st.all_text, st.pdfs, pdf_path,
                                      output_dir, config, output_filename_base,
                                      combine_output),
                       tmp_dir),
                st.m.ntmp, st.m.calls),
           IF return_text THEN Some(JoinText(st.all_text)) ELSE None, "")

\* the end of _process_pdf after the page loop ended in st: the temporary
\* directory goes on every path; the exception of a page, or of writing the
\* combined text, is raised again
PdfFinish(st, tmp_dir, pdf_path, output_dir, config, output_filename_base, return_text, combine_output) ==
  IF st.err # ""
  THEN Out(Mach(RmTree(st.m.disk, tmp_dir), st.m.ntmp, st.m.calls), None, st.err)
  ELSE IF CombineFails(st.m.disk, st.all_text, pdf_path, output_dir,
                       output_filename_base, combine_output)
  THEN Out(Mach(RmTree(st.m.disk, tmp_dir), st.m.ntmp, st.m.calls), None,
           "IsADirectoryError")
  ELSE Out(Mach(RmTree(CombineOutputs(st.m.disk, st.all_text, st.pdfs, pdf_path,
                                      output_dir, config, output_filename_base,
                                      combine_output),
                       tmp_dir),
                st.m.ntmp, st.m.calls),
           IF return_text THEN Some(JoinText(st.all_text)) ELSE None, "")

\* the page images saved in the fresh temporary directory of machine m
PdfSaved(m, pages) ==
  Mach(SavePages(MkDTemp(m).disk, TmpName(m), pages, 1), m.ntmp + 1, m.calls)

\* _process_pdf from the temporary directory on, pages_dir made
PdfRun(m, pages, pdf_path, output_dir, config, output_filename_base, return_text, combine_output) ==
  PdfFinish(PageLoop(LoopState(PdfSaved(m, pages), <<>>, <<>>, ""),
                     TmpName(m), 1, Len(pages), pdf_path, output_dir, config,
                     output_filename_base, return_text, combine_output),
            TmpName(m), pdf_path, output_dir, config, output_filename_base,
            return_text, combine_output)

\* the machine after os.makedirs(pages_dir), when there is a pages_dir
PdfSetup(m, pages_dir) ==
  IF pages_dir # None THEN Mach(MakeDirs(m.disk, pages_dir[1]), m.ntmp, m.calls) ELSE m

\* _process_pdf from the page directory on, for a PDF of at least one page
PdfPipeline(m, pages, pdf_path, output_dir, config, output_filename_base, return_text, combine_output) ==
  PdfRun(PdfSetup(m, PagesDir(pdf_path, output_dir, output_filename_base,
                              combine_output)),
         pages, pdf_path, output_dir, config, output_filename_base, return_text,
         combine_output)

\* _process_pdf once the rasterizer has answered ras
PdfRasterized(m, ras, pdf_path, output_dir, config, output_filename_base, return_text, combine_output) ==
  IF ras.err # "" THEN Out(m, None, ras.err)
  ELSE IF ras.pages = <<>> THEN Out(m, None, "")
  ELSE PdfPipeline(m, ras.pages, pdf_path, output_dir, config, output_filename_base,
                   return_text, combine_output)

\* a _process_pdf without the PDF_SUPPORT test
process_pdf_NoSupportTest(m, pdf_path, output_dir, config, output_filename_base, return_text, combine_output) ==
  PdfRasterized(m, Rasterize(m.disk, pdf_path), pdf_path, output_dir, config,
                output_filename_base, return_text, combine_output)

process_pdf(m, pdf_path, output_dir, config, output_filename_base, return_text, combine_output) ==
  IF ~env.pdf_support THEN Out(m, None, "RuntimeError")
  ELSE PdfRasterized(m, Rasterize(m.disk, pdf_path), pdf_path, output_dir, config,
                     output_filename_base, return_text, combine_output)

(***************************************************************************)
(* TesseractOCR._process_pdf of src/TesseractOCR.py, the copy of the class *)
(* at the repository root.  Its _process_image is the packaged one line    *)
(* for line; its _process_pdf has no combine_output and no test for an     *)
(* empty page list: the temporary directory is made and the page loop runs *)
(* over whatever the rasterizer returned, which is the packaged loop with  *)
(* combination off.                                                        *)
(***************************************************************************)
\* the copy's _process_pdf once the rasterizer has answered ras
RootPdfRasterized(m, ras, pdf_path, output_dir, config, output_filename_base, return_text) ==
  IF ras.err # "" THEN Out(m, None, ras.err)
  ELSE PdfRun(m, ras.pages, pdf_path, output_dir, config, output_filename_base,
              return_text, FALSE)

root_process_pdf(m, pdf_path, output_dir, config, output_filename_base, return_text) ==
  IF ~env.pdf_support THEN Out(m, None, "RuntimeError")
  ELSE RootPdfRasterized(m, Rasterize(m.disk, pdf_path), pdf_path, output_dir, config,
                         output_filename_base, return_text)

(***************************************************************************)
(* TesseractOCR.process_file.                                              *)
(***************************************************************************)
\* an out_dir that forgets the instance default
EffectiveOutDir_NoDefault(output_dir) == output_dir

\* out_dir: the explicit output directory, else the instance default
EffectiveOutDir(output_dir) ==
  IF output_dir # None THEN output_dir ELSE ocr.default_output_dir

\* cfg: the explicit configuration, else the instance default
EffectiveConfig(config) == IF config # None THEN config[1] ELSE ocr.default_config

\* an outcome with the branch and the resolved directory and configuration
Routed(r, route, out_dir, cfg) ==
  [r EXCEPT !.route = route, !.out_dir = out_dir, !.cfg = Some(cfg)]

\* process_file with out_dir and cfg resolved
FileDispatch(m, input_file, out_dir, cfg, output_filename_base, return_text, combine_output) ==
  IF ~Exists(m.disk, input_file)
  THEN [Out(m, None, "FileNotFoundError") EXCEPT !.route = "notfound"]
  ELSE IF Lower(Suffix(input_file)) = ".pdf"
  THEN Routed(process_pdf(m, input_file, out_dir, cfg, output_filename_base,
                          return_text, combine_output),
              "pdf", out_dir, cfg)
  ELSE IF Lower(Suffix(input_file)) \in SUPPORTED_IMAGE_FORMATS
  THEN Routed(process_image(m, input_file, out_dir, cfg, output_filename_base,
                            return_text),
              "image", out_dir, cfg)
  ELSE Routed(Out(m, None, "ValueError"), "unsupported", out_dir, cfg)

process_file(m, input_file, output_dir, config, output_filename_base, return_text, combine_output) ==
  FileDispatch(m, input_file, EffectiveOutDir(output_dir), EffectiveConfig(config),
               output_filename_base, return_text, combine_output)

(***************************************************************************)
(* The batch: process_directory and process_file_list.  The result mapping *)
(* is a dict: a sequence of <<key, value>> pairs in insertion order, with  *)
(* at most one pair per key.                                               *)
(***************************************************************************)
Keys(results) == {results[i][1] : i \in 1..Len(results)}

\* results[key] = value
DictSet(results, key, value) ==
  IF key \in Keys(results)
  THEN [i \in 1..Len(results) |->
          IF results[i][1] = key THEN <<key, value>> ELSE results[i]]
  ELSE Append(results, <<key, value>>)

\* results[key]
DictGet(results, key) ==
  LET i == CHOOSE j \in 1..Len(results) : results[j][1] = key IN results[i][2]

\* the state of the loop over the files: the machine, the mapping and the
\* outcomes of the items so far
BatchState(m, results, outs) == [m |-> m, results |-> results, outs |-> outs]

ItemOut(file_path, r) == [path |-> file_path, ret |-> r.ret, err |-> r.err]

\* a try/except that records nothing for a failed item
BatchRecord_NoNone(st, r, file_path, return_text) ==
  IF r.err = ""
  THEN BatchState(r.m, IF return_text THEN DictSet(st.results, file_path, r.ret)
                       ELSE st.results,
                  Append(st.outs, ItemOut(file_path, r)))
  ELSE BatchState(r.m, st.results, Append(st.outs, ItemOut(file_path, r)))

\* a try/except that records None for an item that returned its text
BatchRecord_DropText(st, r, file_path, return_text) ==
  IF r.err = ""
  THEN BatchState(r.m, IF return_text THEN DictSet(st.results, file_path, None)
                       ELSE st.results,
                  Append(st.outs, ItemOut(file_path, r)))
  ELSE BatchState(r.m, DictSet(st.results, file_path, None),
                  Append(st.outs, ItemOut(file_path, r)))

\* what the try/except records of the outcome r of process_file
BatchRecord(st, r, file_path, return_text) ==
  IF r.err = ""
  THEN BatchState(r.m, IF return_text THEN DictSet(st.results, file_path, r.ret)
                       ELSE st.results,
                  Append(st.outs, ItemOut(file_path, r)))
  ELSE BatchState(r.m, DictSet(st.results, file_path, None),
                  Append(st.outs, ItemOut(file_path, r)))

\* one turn of the loop over the files
BatchStep(st, file_path, output_dir, config, return_text, combine_output) ==
  BatchRecord(st,
              process_file(st.m, file_path, output_dir, config, None, return_text,
                           combine_output),
              file_path, return_text)

RECURSIVE BatchLoop_LastFirst(_, _, _, _, _, _)
\* a loop that takes the files from the end of the list
BatchLoop_LastFirst(st, files, output_dir, config, return_text, combine_output) ==
  IF files = <<>> THEN st
  ELSE BatchLoop_LastFirst(BatchStep(st, files[Len(files)], output_dir, config,
                                     return_text, combine_output),
                           SubSeq(files, 1, Len(files) - 1), output_dir, config,
                           return_text, combine_output)

RECURSIVE BatchLoop(_, _, _, _, _, _)
BatchLoop(st, files, output_dir, config, return_text, combine_output) ==
  IF files = <<>> THEN st
  ELSE BatchLoop(BatchStep(st, Head(files), output_dir, config, return_text,
                           combine_output),
                 Tail(files), output_dir, config, return_text, combine_output)

\* `return results`
BatchReturn(st, files) ==
  [Out(st.m, None, "") EXCEPT !.items = files, !.results = st.results,
                              !.outs = st.outs]

\* the mapping a batch over `files` returns
Batch(m, files, output_dir, config, return_text, combine_output) ==
  BatchReturn(BatchLoop(BatchState(m, <<>>, <<>>), files, output_dir, config, return_text,
                        combine_output),
              files)

\* extensions: the given set, else (also for an empty set) the supported ones
Extensions(file_extensions) ==
  IF file_extensions # None /\ file_extensions[1] # {}
  THEN file_extensions[1] ELSE SUPPORTED_IMAGE_FORMATS \cup {".pdf"}

\* the files under input_dir (directly, or at any depth when recursive)
FilesUnder(d, input_dir, recursive) ==
  {p \in DOMAIN d :
     /\ IsFile(d, p)
     /\ IF recursive THEN IsPrefix(input_dir, Parent(p)) ELSE Parent(p) = input_dir}

\* the orders in which os.walk / iterdir may yield the files: any order within
\* a directory, a directory before the directories under it
WalkOrders(files) ==
  {f \in [1..Cardinality(files) -> files] :
     /\ \A i, j \in 1..Cardinality(files) : i # j => f[i] # f[j]
     /\ \A i, j \in 1..Cardinality(files) :
          (i < j) => ~(Parent(f[j]) # Parent(f[i]) /\ IsPrefix(Parent(f[j]), Parent(f[i])))}

\* files_to_process: the files of the listing whose lower-cased suffix is in
\* the extensions, in the order of the listing
FilesToProcess(listing, file_extensions) ==
  SelectSeq(listing, LAMBDA p : Lower(Suffix(p)) \in Extensions(file_extensions))

\* process_directory; `listing` is what os.walk (recursive) or iterdir yields
process_directory(m, input_dir, listing, output_dir, config, file_extensions, return_text, combine_output) ==
  IF ~IsDir(m.disk, input_dir) THEN Out(m, None, "ValueError")
  ELSE Batch(m, FilesToProcess(listing, file_extensions), output_dir, config,
             return_text, combine_output)

\* file_paths: the stripped, non-empty lines of the list file
FilePaths(d, file_list_path) == SelectSeq(d[file_list_path].lines, LAMBDA l : l # <<>>)

process_file_list(m, file_list_path, output_dir, config, return_text, combine_output) ==
  IF ~IsFile(m.disk, file_list_path) THEN Out(m, None, "FileNotFoundError")
  ELSE Batch(m, FilePaths(m.disk, file_list_path), output_dir, config, return_text,
             combine_output)

(***************************************************************************)
(* TesseractOCR.process.                                                   *)
(***************************************************************************)
\* f.readline().strip(): the first line of the file, <<>> when it is blank
\* or the file is empty
FirstLine(d, path) ==
  IF d[path].lines = <<>> THEN <<>> ELSE d[path].lines[1]

\* the file-list test: a .txt file whose first line names an existing path
IsFileList(d, path) ==
  /\ IsFile(d, path) /\ Lower(Suffix(path)) = ".txt"
  /\ FirstLine(d, path) # <<>> /\ Exists(d, FirstLine(d, path))

\* an outcome with the classification process made
Classified(r, cls) == [r EXCEPT !.cls = cls]

\* a process that hands every file to process_file, whatever its extension
process_NoExtCheck(m, input_path, listing, output_dir, config, return_text, combine_output, file_extensions, output_filename_base) ==
  IF IsFileList(m.disk, input_path)
  THEN Classified(process_file_list(m, input_path, output_dir, config, return_text,
                                    combine_output), "file_list")
  ELSE IF IsDir(m.disk, input_path)
  THEN Classified(process_directory(m, input_path, listing, output_dir, config,
                                    file_extensions, return_text, combine_output),
                  "directory")
  ELSE IF IsFile(m.disk, input_path)
  THEN Classified(process_file(m, input_path, output_dir, config,
                               output_filename_base, return_text, combine_output),
                  "file")
  ELSE Classified(Out(m, None, "ValueError"), "fail")

process(m, input_path, listing, output_dir, config, return_text, combine_output, file_extensions, output_filename_base) ==
  IF IsFileList(m.disk, input_path)
  THEN Classified(process_file_list(m, input_path, output_dir, config, return_text,
                                    combine_output), "file_list")
  ELSE IF IsDir(m.disk, input_path)
  THEN Classified(process_directory(m, input_path, listing, output_dir, config,
                                    file_extensions, return_text, combine_output),
                  "directory")
  ELSE IF /\ IsFile(m.disk, input_path)
          /\ \/ Lower(Suffix(input_path)) \in SUPPORTED_IMAGE_FORMATS
             \/ Lower(Suffix(input_path)) = ".pdf"
  THEN Classified(process_file(m, input_path, output_dir, config,
                               output_filename_base, return_text, combine_output),
                  "file")
  ELSE Classified(Out(m, None, "ValueError"), "fail")

(***************************************************************************)
(* The world the calls run in.                                             *)
(***************************************************************************)
\* how the engine behaves on an image: exit code and text of the first run,
\* whether that run writes its text file, and the same for the forced re-run
Beh(exit, txt, text, rexit, rtxt) ==
  [exit |-> exit, txt |-> txt, text |-> text, rexit |-> rexit, rtxt |-> rtxt]

Texts == {"", "A", "B"}

BehOk(t) == Beh(0, TRUE, t, 0, TRUE)
BehFail == Beh(1, FALSE, "", 1, FALSE)
BehLate(t) == Beh(0, FALSE, t, 0, TRUE)
BehNever == Beh(0, FALSE, "", 0, FALSE)
BehReFail == Beh(0, FALSE, "", 1, FALSE)

Behaviours ==
  {BehOk(t) : t \in Texts} \cup {BehFail, BehLate("A"), BehNever, BehReFail}

IN_DIR == <<"in">>
OUT_DIR == <<"out">>
IMG == <<"in", "a", ".png">>

\* the directories every world has
BaseDisk == [p \in {TMP_ROOT, IN_DIR} |-> DirEntry]

\* the arguments of a call (config is None or Some(configuration))
Args(path, output_dir, config, base, return_text, combine, recursive, exts) ==
  [path |-> path, output_dir |-> output_dir, config |-> config, base |-> base,
   return_text |-> return_text, combine |-> combine, recursive |-> recursive,
   exts |-> exts]

\* the inputs of the static constructors: the string given to
\* config_from_string and the keywords given to config_from_kwargs
NoInputs == [config_string |-> <<>>, kwargs |-> <<>>]

NoCall ==
  [op |-> "none", pre |-> BaseDisk, pretmp |-> 0]
  @@ Args(<<>>, None, None, None, FALSE, FALSE, FALSE, None)
  @@ NoInputs
  @@ [calls |-> <<>>, ret |-> None, err |-> "", route |-> "", out_dir |-> None,
      cfg |-> None, cls |-> "", items |-> <<>>, results |-> <<>>, outs |-> <<>>]

\* TesseractOCR(): default configuration, no default output directory
DefaultOcr == [default_config |-> DefaultConfig, default_output_dir |-> None]

AllCaps == [pdf_support |-> TRUE, pypdf2 |-> "ok"]

OutDirs == {None, Some(OUT_DIR)}
Bases == {None, Some("b")}
ImageConfigs == {Config("eng", 300, 3, 3, <<>>, pdf, None) : pdf \in BOOLEAN}

\* the record of a finished call: its arguments, the disk and the temporary
\* counter before it, and what the operation yielded
Called(op, args, r) ==
  [op |-> op, pre |-> disk, pretmp |-> ntmp]
  @@ args
  @@ NoInputs
  @@ [calls |-> r.m.calls, ret |-> r.ret, err |-> r.err, route |-> r.route,
      out_dir |-> r.out_dir, cfg |-> r.cfg, cls |-> r.cls, items |-> r.items,
      results |-> r.results, outs |-> r.outs]

\* a step that keeps the configuration of the call as the instance default
Finish_StoresConfig(op, args, r) ==
  /\ last' = Called(op, args, r)
  /\ disk' = r.m.disk
  /\ ntmp' = r.m.ntmp
  /\ ncall' = ncall + 1
  /\ ocr' = [ocr EXCEPT !.default_config =
                          IF args.config # None THEN args.config[1] ELSE @]
  /\ UNCHANGED env

\* the step a call makes: the machine it leaves and the record of the call;
\* no operation assigns to the instance or to a field of a configuration
Finish(op, args, r) ==
  /\ last' = Called(op, args, r)
  /\ disk' = r.m.disk
  /\ ntmp' = r.m.ntmp
  /\ ncall' = ncall + 1
  /\ UNCHANGED <<env, ocr>>

(***************************************************************************)
(* Calls of _process_image on one image, whose engine behaviour varies.    *)
(***************************************************************************)
InitImage ==
  /\ \E b \in Behaviours : disk = Put(BaseDisk, IMG, ImgEntry(b))
  /\ ntmp = 0
  /\ env = AllCaps
  /\ ocr = DefaultOcr
  /\ last = NoCall
  /\ ncall = 0

ProcessImage ==
  /\ ncall < MaxCalls
  /\ \E output_dir \in OutDirs, config \in ImageConfigs, base \in Bases,
        return_text \in BOOLEAN :
       Finish("_process_image",
              Args(IMG, output_dir, Some(config), base, return_text, FALSE, FALSE, None),
              process_image(Mach(disk, ntmp, <<>>), IMG, output_dir, config, base,
                            return_text))

NextImage == ProcessImage

SpecImage == InitImage /\ [][NextImage]_vars

(***************************************************************************)
(* Calls of _process_image whose image name, basename override or          *)
(* configuration values may read "pdf".                                    *)
(***************************************************************************)
\* an image file named pdf in the working directory
PDF_NAMED_IMG == <<"pdf">>

CmdConfigs ==
  {Config(lang, 300, 3, 3, cs, pdf, td) :
     lang \in {"eng", "pdf"}, cs \in {<<>>, <<"-c", " ", "x=1">>, <<"pdf">>},
     pdf \in BOOLEAN, td \in {None, Some(<<"td">>), Some(Tok("pdf"))}}

InitCmd ==
  /\ \E b \in {BehOk("A"), BehFail} :
       disk = Put(Put(BaseDisk, IMG, ImgEntry(b)), PDF_NAMED_IMG, ImgEntry(BehOk("B")))
  /\ ntmp = 0
  /\ env = AllCaps
  /\ ocr = DefaultOcr
  /\ last = NoCall
  /\ ncall = 0

ProcessImageCmd ==
  /\ ncall = 0
  /\ \E image_path \in {IMG, PDF_NAMED_IMG}, output_dir \in OutDirs,
        config \in CmdConfigs, base \in {None, Some("b"), Some("pdf")},
        return_text \in BOOLEAN :
       Finish("_process_image",
              Args(image_path, output_dir, Some(config), base, return_text, FALSE, FALSE, None),
              process_image(Mach(disk, ntmp, <<>>), image_path, output_dir, config, base,
                            return_text))

NextCmd == ProcessImageCmd

SpecCmd == InitCmd /\ [][NextCmd]_vars

(***************************************************************************)
(* The static constructors config_from_string and config_from_kwargs.      *)
(***************************************************************************)
\* the decimal numerals int() accepts: an optional sign, leading zeros, digits
IsNumeralOf(w, n) ==
  \E z \in {"", "0"}, sg \in {"", "+", "-"} : w = sg \o z \o NatStr(n)

IsNumeral(w) == \E n \in 0..MaxNumeral : IsNumeralOf(w, n)

\* the number a numeral w of magnitude n stands for
Signed(w, n) ==
  IF \E z \in {"", "0"} : w = "-" \o z \o NatStr(n) THEN 0 - n ELSE n

\* int(w): None stands for the ValueError of a word that is no numeral
PyInt(w) ==
  IF IsNumeral(w)
  THEN Some(Signed(w, CHOOSE n \in 0..MaxNumeral : IsNumeralOf(w, n)))
  ELSE None

\* the result of a constructor: the configuration, or the error raised
Built(config) == [cfg |-> Some(config), err |-> ""]
Raised(e) == [cfg |-> None, err |-> e]

\* config.config_string += " " (when not empty), then += parts[i]
AppendCustom(config, w) ==
  [config EXCEPT !.config_string =
     IF @ # <<>> THEN @ \o <<" ", w>> ELSE <<w>>]

RECURSIVE ParseParts(_, _, _)
\* the while loop of config_from_string, at index i (1-based) of parts
ParseParts(parts, i, config) ==
  IF i > Len(parts) THEN Built(config)
  ELSE IF parts[i] = "-l" /\ i + 1 <= Len(parts)
  THEN ParseParts(parts, i + 2, [config EXCEPT !.lang = parts[i + 1]])
  ELSE IF parts[i] = "--psm" /\ i + 1 <= Len(parts)
  THEN IF PyInt(parts[i + 1]) = None THEN Raised("ValueError")
       ELSE ParseParts(parts, i + 2, [config EXCEPT !.psm = PyInt(parts[i + 1])[1]])
  ELSE IF parts[i] = "--oem" /\ i + 1 <= Len(parts)
  THEN IF PyInt(parts[i + 1]) = None THEN Raised("ValueError")
       ELSE ParseParts(parts, i + 2, [config EXCEPT !.oem = PyInt(parts[i + 1])[1]])
  ELSE IF parts[i] = "--tessdata-dir" /\ i + 1 <= Len(parts)
  THEN ParseParts(parts, i + 2, [config EXCEPT !.tessdata_dir = Some(Tok(parts[i + 1]))])
  ELSE IF parts[i] = "pdf"
  THEN ParseParts(parts, i + 1, [config EXCEPT !.output_pdf = TRUE])
  ELSE ParseParts(parts, i + 1, AppendCustom(config, parts[i]))

\* a parse that forgets a flag left without a value at the end of the string
config_from_string_DropLoneFlag(config_string) ==
  IF Split(config_string) # <<>>
     /\ Split(config_string)[Len(Split(config_string))]
          \in {"-l", "--psm", "--oem", "--tessdata-dir"}
  THEN ParseParts(SubSeq(Split(config_string), 1, Len(Split(config_string)) - 1),
                  1, DefaultConfig)
  ELSE ParseParts(Split(config_string), 1, DefaultConfig)

config_from_string(config_string) ==
  ParseParts(Split(config_string), 1, DefaultConfig)

\* fields(TesseractConfig): the names of the fields
valid_fields == DOMAIN DefaultConfig

\* {k: v for k, v in kwargs.items() if k in valid_fields}
filtered_kwargs(kwargs) ==
  [k \in DOMAIN kwargs \cap valid_fields |-> kwargs[k]]

\* TesseractConfig(**kw): a keyword that names no field is a TypeError
TesseractConfig(kw) ==
  IF DOMAIN kw \subseteq valid_fields
  THEN Built([f \in valid_fields |-> IF f \in DOMAIN kw THEN kw[f] ELSE DefaultConfig[f]])
  ELSE Raised("TypeError")

\* a constructor that hands every keyword to TesseractConfig
config_from_kwargs_Unfiltered(kwargs) == TesseractConfig(kwargs)

config_from_kwargs(kwargs) == TesseractConfig(filtered_kwargs(kwargs))

(***************************************************************************)
(* Calls of the static constructors on strings and keyword sets.           *)
(***************************************************************************)
ParseWords ==
  {"-l", "--psm", "--oem", "--tessdata-dir", "pdf", "jpn+eng", "6", "01", "x"}

RECURSIVE JoinWords(_)
\* the words with one blank between neighbours
JoinWords(ws) ==
  IF ws = <<>> THEN <<>>
  ELSE IF Len(ws) = 1 THEN ws
  ELSE <<Head(ws), " ">> \o JoinWords(Tail(ws))

\* the strings handed to config_from_string: up to MaxWords words one blank
\* apart, and strings with leading, trailing and repeated blanks
ParseStrings ==
  {JoinWords(ws) : ws \in UNION {[1..n -> ParseWords] : n \in 0..MaxWords}}
  \cup {<<" ">>, <<" ", "-l", " ", " ", "jpn+eng", " ", "x", " ", " ", "-c">>,
        <<"-l", " ", "jpn+eng", " ", "--psm", " ", "6", " ", "--oem", " ", "1">>,
        <<"--oem", " ", "-1", " ", "--psm", " ", "+6">>,
        <<"--psm", " ", "01", " ", "--psm", " ", "6", " ", "pdf", " ", "-l">>}

\* the value a call gives to a keyword, in one of two variants
KwValue(k, alt) ==
  CASE k = "lang" -> IF alt THEN "jpn" ELSE "eng"
    [] k = "dpi" -> IF alt THEN 600 ELSE 72
    [] k = "psm" -> IF alt THEN 7 ELSE 3
    [] k = "oem" -> IF alt THEN 2 ELSE 0
    [] k = "config_string" -> IF alt THEN <<"-c", " ", "x=1">> ELSE <<>>
    [] k = "output_pdf" -> alt
    [] k = "tessdata_dir" -> IF alt THEN Some(<<"td">>) ELSE None
    [] OTHER -> IF alt THEN "jpn" ELSE 1

InitParse ==
  /\ disk = BaseDisk
  /\ ntmp = 0
  /\ env = AllCaps
  /\ ocr = DefaultOcr
  /\ last = NoCall
  /\ ncall = 0

\* the record of a constructor call: its input and what it returned or raised
Constructed(op, config_string, kwargs, r) ==
  [NoCall EXCEPT !.op = op, !.config_string = config_string, !.kwargs = kwargs,
                 !.cfg = r.cfg, !.ret = r.cfg, !.err = r.err]

ConfigFromString ==
  /\ ncall = 0
  /\ \E s \in ParseStrings :
       last' = Constructed("config_from_string", s, <<>>, config_from_string(s))
  /\ ncall' = ncall + 1
  /\ UNCHANGED <<disk, ntmp, env, ocr>>

ConfigFromKwargs ==
  /\ ncall = 0
  /\ \E D \in SUBSET (valid_fields \cup {"language", "verbose"}), alt \in BOOLEAN :
       last' = Constructed("config_from_kwargs", <<>>, [k \in D |-> KwValue(k, alt)],
                           config_from_kwargs([k \in D |-> KwValue(k, alt)]))
  /\ ncall' = ncall + 1
  /\ UNCHANGED <<disk, ntmp, env, ocr>>

NextParse == ConfigFromString \/ ConfigFromKwargs

SpecParse == InitParse /\ [][NextParse]_vars

(***************************************************************************)
(* Calls of to_cmd_args on a configuration value, held as the default      *)
(* configuration of the instance.                                          *)
(***************************************************************************)
ConfigStrings ==
  {<<>>, <<" ">>, <<"-c">>, <<"-c", " ", "x=1">>,
   <<" ", "-c", " ", " ", "x=1", " ">>, <<"pdf">>}

ConfigValues ==
  {Config(lang, dpi, psm, oem, cs, pdf, td) :
     lang \in {"eng", "jpn+eng", "pdf", ""}, dpi \in {300, 600},
     psm \in {0, 6, 13}, oem \in {1, 3},
     cs \in ConfigStrings, pdf \in BOOLEAN,
     td \in {None, Some(Tok("")), Some(<<"td">>)}}

InitConfig ==
  /\ disk = BaseDisk
  /\ ntmp = 0
  /\ env = AllCaps
  /\ \E c \in ConfigValues : ocr = [default_config |-> c, default_output_dir |-> None]
  /\ last = NoCall
  /\ ncall = 0

\* args = self.default_config.to_cmd_args(): last.config is the value before
\* the call, last.cfg the value after it, last.calls holds the tokens
ToCmdArgs ==
  /\ ncall < MaxCalls
  /\ last' = [NoCall EXCEPT !.op = "to_cmd_args",
                            !.config = Some(ocr.default_config),
                            !.cfg = Some(ocr.default_config),
                            !.calls = <<to_cmd_args(ocr.default_config)>>]
  /\ ncall' = ncall + 1
  /\ UNCHANGED <<disk, ntmp, env, ocr>>

\* " ".join(args): the tokens one blank apart
ArgsString(args) == JoinWords([i \in 1..Len(args) |-> args[i][1]])

\* config_from_string(" ".join(args)) on the tokens the last call returned;
\* last.config stays the configuration the tokens came from
ConfigFromArgs ==
  /\ ncall < MaxCalls
  /\ last.op = "to_cmd_args"
  /\ last' = [Constructed("config_from_string", ArgsString(last.calls[1]), <<>>,
                          config_from_string(ArgsString(last.calls[1])))
               EXCEPT !.config = last.config, !.calls = last.calls]
  /\ ncall' = ncall + 1
  /\ UNCHANGED <<disk, ntmp, env, ocr>>

NextConfig == ToCmdArgs \/ ConfigFromArgs

SpecConfig == InitConfig /\ [][NextConfig]_vars

(***************************************************************************)
(* One call of _process_pdf on one PDF, whose pages vary, from a disk that  *)
(* holds no output yet.                                                    *)
(***************************************************************************)
DOC == <<"in", "doc", ".pdf">>

PageBehaviours == {BehOk("A"), BehOk("B"), BehOk(""), BehFail, BehNever}

RECURSIVE SeqsUpTo(_, _)
\* the sequences over S of length at most n
SeqsUpTo(S, n) ==
  IF n = 0 THEN {<<>>}
  ELSE LET shorter == SeqsUpTo(S, n - 1)
       IN shorter \cup {Append(q, x) : q \in {t \in shorter : Len(t) = n - 1}, x \in S}

Envs ==
  {AllCaps, [pdf_support |-> FALSE, pypdf2 |-> "absent"],
   [pdf_support |-> TRUE, pypdf2 |-> "absent"],
   [pdf_support |-> TRUE, pypdf2 |-> "raises"]}

\* a directory that sits where the combined text of DOC would be written
DOC_TXT_DIR == OUT_DIR \o <<"doc", ".txt">>

InitPdf ==
  /\ \E pages \in SeqsUpTo(PageBehaviours, MaxPages), blocked \in BOOLEAN :
       disk = IF blocked THEN MakeDirs(Put(BaseDisk, DOC, PdfEntry(pages)), DOC_TXT_DIR)
              ELSE Put(BaseDisk, DOC, PdfEntry(pages))
  /\ ntmp = 0
  /\ env \in Envs
  /\ ocr = DefaultOcr
  /\ last = NoCall
  /\ ncall = 0

ProcessPdf ==
  /\ ncall = 0
  /\ \E output_dir \in OutDirs, config \in ImageConfigs, base \in Bases,
        return_text \in BOOLEAN, combine_output \in BOOLEAN :
       Finish("_process_pdf",
              Args(DOC, output_dir, Some(config), base, return_text, combine_output,
                   FALSE, None),
              process_pdf(Mach(disk, ntmp, <<>>), DOC, output_dir, config, base,
                          return_text, combine_output))

\* the same call on the class of src/TesseractOCR.py
ProcessPdfRoot ==
  /\ ncall = 0
  /\ \E output_dir \in OutDirs, config \in ImageConfigs, base \in Bases,
        return_text \in BOOLEAN :
       Finish("root._process_pdf",
              Args(DOC, output_dir, Some(config), base, return_text, FALSE,
                   FALSE, None),
              root_process_pdf(Mach(disk, ntmp, <<>>), DOC, output_dir, config, base,
                               return_text))

NextPdf == ProcessPdf \/ ProcessPdfRoot

SpecPdf == InitPdf /\ [][NextPdf]_vars

(***************************************************************************)
(* One call of the public entry points (process, process_file,             *)
(* process_directory, process_file_list) in a world of images, PDFs,       *)
(* an unsupported file and list files.                                     *)
(***************************************************************************)
SUB_DIR == <<"in", "sub">>
LISTS_DIR == <<"lists">>
MISC_DIR == <<"misc">>
DFLT_DIR == <<"dflt">>
A_PNG == <<"in", "a", ".png">>
BAD_PNG == <<"misc", "bad", ".png">>
Z_PDF == <<"in", "z", ".pdf">>
B_PDF == <<"in", "sub", "b", ".PDF">>
B_TOP_PDF == <<"in", "b", ".pdf">>
C_XYZ == <<"in", "sub", "c", ".xyz">>
GHOST_PNG == <<"misc", "ghost", ".png">>
MISSING == <<"in", "missing", ".png">>
L1 == <<"lists", "l1", ".txt">>
L2 == <<"lists", "l2", ".TXT">>
L3 == <<"lists", "l3", ".txt">>

BatchDisk ==
  (A_PNG :> ImgEntry(BehOk("A")))
  @@ (BAD_PNG :> ImgEntry(BehFail))
  @@ (Z_PDF :> PdfEntry(<<>>))
  @@ (B_PDF :> PdfEntry(<<BehOk("A"), BehOk("B")>>))
  @@ (B_TOP_PDF :> PdfEntry(<<BehOk("B")>>))
  @@ (C_XYZ :> OtherEntry)
  @@ (GHOST_PNG :> ImgEntry(BehNever))
  @@ (L1 :> ListEntry(<<A_PNG, <<>>, MISSING, BAD_PNG, C_XYZ, B_PDF, A_PNG>>))
  @@ (L2 :> ListEntry(<<<<>>, GHOST_PNG, Z_PDF, A_PNG>>))
  @@ (L3 :> ListEntry(<<MISSING, A_PNG>>))
  @@ [p \in {TMP_ROOT, IN_DIR, SUB_DIR, LISTS_DIR, MISC_DIR} |-> DirEntry]

PdfConfig == Config("eng", 300, 3, 3, <<>>, TRUE, None)

OptConfigs == {None, Some(PdfConfig)}

\* TesseractOCR(default_config, default_output_dir)
Ocrs ==
  {[default_config |-> c, default_output_dir |-> o] :
     c \in {DefaultConfig, PdfConfig}, o \in {None, Some(DFLT_DIR)}}

InitBatch ==
  /\ ocr \in Ocrs
  /\ disk = IF ocr.default_output_dir # None
            THEN MakeDirs(BatchDisk, ocr.default_output_dir[1]) ELSE BatchDisk
  /\ ntmp = 0
  /\ env \in {AllCaps, [pdf_support |-> FALSE, pypdf2 |-> "ok"]}
  /\ last = [NoCall EXCEPT !.pre = disk]
  /\ ncall = 0

FileInputs == {A_PNG, BAD_PNG, Z_PDF, B_PDF, C_XYZ, GHOST_PNG, MISSING, L1}
DirInputs == {IN_DIR, LISTS_DIR, A_PNG}
ListInputs == {L1, L2, L3}
AnyInputs == {IN_DIR, LISTS_DIR, L1, L2, L3, A_PNG, B_PDF, C_XYZ, MISSING}
ExtSets == {None, Some({}), Some({".png"}), Some({".png", ".xyz", ".txt"})}

ProcessFile ==
  /\ ncall = 0
  /\ \E input_file \in FileInputs, output_dir \in OutDirs, config \in OptConfigs,
        base \in Bases, return_text \in BOOLEAN, combine_output \in BOOLEAN :
       Finish("process_file",
              Args(input_file, output_dir, config, base, return_text, combine_output,
                   FALSE, None),
              process_file(Mach(disk, ntmp, <<>>), input_file, output_dir, config,
                           base, return_text, combine_output))

ProcessDirectory ==
  /\ ncall = 0
  /\ \E input_dir \in DirInputs, output_dir \in OutDirs, config \in OptConfigs,
        recursive \in BOOLEAN, file_extensions \in ExtSets,
        return_text \in BOOLEAN, combine_output \in BOOLEAN :
     \E listing \in WalkOrders(FilesUnder(disk, input_dir, recursive)) :
       Finish("process_directory",
              Args(input_dir, output_dir, config, None, return_text, combine_output,
                   recursive, file_extensions),
              process_directory(Mach(disk, ntmp, <<>>), input_dir, listing, output_dir,
                                config, file_extensions, return_text, combine_output))

ProcessFileList ==
  /\ ncall = 0
  /\ \E file_list_path \in ListInputs, output_dir \in OutDirs, config \in OptConfigs,
        return_text \in BOOLEAN, combine_output \in BOOLEAN :
       Finish("process_file_list",
              Args(file_list_path, output_dir, config, None, return_text,
                   combine_output, FALSE, None),
              process_file_list(Mach(disk, ntmp, <<>>), file_list_path, output_dir,
                                config, return_text, combine_output))

Process ==
  /\ ncall = 0
  /\ \E input_path \in AnyInputs, output_dir \in OutDirs, config \in OptConfigs,
        recursive \in BOOLEAN, return_text \in BOOLEAN, combine_output \in BOOLEAN :
     \E listing \in WalkOrders(FilesUnder(disk, input_path, recursive)) :
       Finish("process",
              Args(input_path, output_dir, config, None, return_text, combine_output,
                   recursive, None),
              process(Mach(disk, ntmp, <<>>), input_path, listing, output_dir, config,
                      return_text, combine_output, None, None))

NextBatch == ProcessFile \/ ProcessDirectory \/ ProcessFileList \/ Process

SpecBatch == InitBatch /\ [][NextBatch]_vars

(***************************************************************************)
(* Claims about _process_image (SpecImage) and _process_pdf (SpecPdf).     *)
(***************************************************************************)
\* the paths under the temporary root that the last call made and left behind
TempLeft == {p \in (DOMAIN disk) \ (DOMAIN last.pre) : IsPrefix(TMP_ROOT, p)}

\* C3: after a _process_image or _process_pdf call with no output directory,
\* no temporary directory or file made during the call remains on disk,
\* whether the call returned or raised and whatever return_text was.
C3_NoTempRemains ==
  (last.op \in {"_process_image", "_process_pdf"} /\ last.output_dir = None)
    => TempLeft = {}

\* the page behaviours and the page texts of the PDF the last call processed
LastPages == last.pre[last.path].pages

RECURSIVE PageTexts(_)
PageTexts(pages) ==
  IF pages = <<>> THEN <<>> ELSE <<Head(pages).text>> \o PageTexts(Tail(pages))

AllPagesRecognized(pages) == \A i \in 1..Len(pages) : pages[i].exit = 0 /\ pages[i].txt

\* C4: for a PDF of N >= 1 pages, all recognized by the engine, _process_pdf
\* with combine_output and return_text returns the texts of the pages 1..N
\* joined with a blank line in page order, a page of empty text included.
C4_JoinOfAllPages ==
  (/\ last.op = "_process_pdf" /\ last.err = ""
   /\ last.combine /\ last.return_text
   /\ Len(LastPages) >= 1 /\ AllPagesRecognized(LastPages))
    => last.ret = Some(JoinText(PageTexts(LastPages)))

\* C5: for a PDF that rasterizes to zero pages, _process_pdf (the packaged
\* one and the one of src/TesseractOCR.py) returns None, raises nothing, runs
\* the engine zero times and leaves no file and no directory, whatever
\* return_text, combine_output and the output directory are.
C5_ZeroPages ==
  (/\ last.op \in {"_process_pdf", "root._process_pdf"}
   /\ env.pdf_support /\ LastPages = <<>>)
    => /\ last.ret = None /\ last.err = ""
       /\ last.calls = <<>>
       /\ disk = last.pre

\* the output base path of the last _process_image call
LastOutPath ==
  OutPath(Mach(last.pre, last.pretmp, <<>>), last.path, last.output_dir, last.base)

\* the engine wrote every format it was asked for by the last call
EngineObliging == last.pre[last.path].beh.exit = 0 /\ last.pre[last.path].beh.txt

BothRequested ==
  /\ last.op = "_process_image" /\ last.err = ""
  /\ last.config[1].output_pdf /\ last.return_text
  /\ EngineObliging

\* C10 as stated: with output_pdf and return_text, <output base>.pdf and
\* <output base>.txt both exist after the call, however the base was resolved.
C10_BothExistAnyBase ==
  BothRequested
    => /\ Exists(disk, LastOutPath \o <<".pdf">>)
       /\ Exists(disk, LastOutPath \o <<".txt">>)

\* C10 amended: both exist when the base was resolved under an output
\* directory; when it was resolved in a private temporary directory the
\* clean-up has removed that directory, and neither exists.
C10_BothExistInOutputDir ==
  BothRequested
    => IF last.output_dir # None
       THEN /\ Exists(disk, LastOutPath \o <<".pdf">>)
            /\ Exists(disk, LastOutPath \o <<".txt">>)
            /\ last.ret = Some(disk[LastOutPath \o <<".txt">>].text)
       ELSE /\ ~Exists(disk, LastOutPath \o <<".pdf">>)
            /\ ~Exists(disk, LastOutPath \o <<".txt">>)
            /\ ~Exists(disk, Parent(LastOutPath))

C10_Witness ==
  /\ BothRequested /\ last.output_dir # None
  /\ Exists(disk, LastOutPath \o <<".pdf">>)
  /\ Exists(disk, LastOutPath \o <<".txt">>)

(***************************************************************************)
(* Claims about the batch dispatcher (SpecBatch).                          *)
(***************************************************************************)
Range(q) == {q[i] : i \in 1..Len(q)}

BatchOps == {"process_directory", "process_file_list"}

\* the last call was a batch over an input it accepts
BatchCalled ==
  /\ last.op \in BatchOps
  /\ IF last.op = "process_directory" THEN IsDir(last.pre, last.path)
     ELSE IsFile(last.pre, last.path)

\* C1: when processing an item of a batch raises (input not found,
\* unsupported format, engine non-zero exit, PDF capability unavailable), the
\* batch call still returns its mapping, the item is recorded under its path
\* with None, and every item after it is processed too.
C1_FailureIsolated ==
  BatchCalled
    => /\ last.err = ""
       /\ Len(last.outs) = Len(last.items)
       /\ \A i \in 1..Len(last.items) :
            /\ last.outs[i].path = last.items[i]
            /\ last.outs[i].err # ""
                 => /\ last.items[i] \in Keys(last.results)
                    /\ DictGet(last.results, last.items[i]) = None

\* the file list l1 with the rasterizer missing: one failure of each kind,
\* then an image that is processed and recorded with its text
C1_Witness ==
  /\ BatchCalled /\ last.path = L1 /\ last.return_text /\ ~env.pdf_support
  /\ last.items = <<A_PNG, MISSING, BAD_PNG, C_XYZ, B_PDF, A_PNG>>
  /\ last.outs[2].err = "FileNotFoundError"
  /\ last.outs[3].err = "RuntimeError"
  /\ last.outs[4].err = "ValueError"
  /\ last.outs[5].err = "RuntimeError"
  /\ last.outs[6].err = ""
  /\ \A p \in {MISSING, BAD_PNG, C_XYZ, B_PDF} : DictGet(last.results, p) = None
  /\ DictGet(last.results, A_PNG) = Some("A")

\* C2: when a batch returns, its mapping has exactly one entry per discovered
\* item, whether the item succeeded or failed and whatever return_text is.
C2_OneEntryPerItem ==
  BatchCalled
    => /\ Keys(last.results) = Range(last.items)
       /\ Len(last.results) = Cardinality(Range(last.items))

\* the entry of item i of the last batch is None
EntryIsNone(i) ==
  /\ last.items[i] \in Keys(last.results)
  /\ DictGet(last.results, last.items[i]) = None

\* C6 as stated: an entry of the mapping is None only if processing that item
\* raised a failure.
C6_NoneOnlyOnFailure ==
  BatchCalled => \A i \in 1..Len(last.items) : EntryIsNone(i) => last.outs[i].err # ""

\* an item for which process_file returns None without raising although text
\* is requested: a PDF of zero pages, or an image whose text file is missing
\* after the first run and after the forced re-run
NoTextItem(p) ==
  /\ Exists(last.pre, p)
  /\ \/ last.pre[p].kind = "pdf" /\ last.pre[p].pages = <<>>
     \/ last.pre[p].kind = "img" /\ ~last.pre[p].beh.txt /\ ~last.pre[p].beh.rtxt

\* C6 amended: an entry is None only if processing the item raised a failure
\* or the item is a PDF of zero pages or an image whose text file never
\* appears; an item processed without failure with text requested maps to
\* what process_file returned for it.
C6_NoneOnFailureOrNoText ==
  BatchCalled
    => \A i \in 1..Len(last.items) :
         /\ EntryIsNone(i)
              => \/ last.outs[i].err # ""
                 \/ last.return_text /\ NoTextItem(last.items[i])
         /\ (last.outs[i].err = "" /\ last.return_text)
              => /\ last.items[i] \in Keys(last.results)
                 /\ DictGet(last.results, last.items[i]) = last.outs[i].ret
                 /\ last.outs[i].ret = None <=> NoTextItem(last.items[i])

\* a zero-page PDF recorded with None beside an image recorded with its text
C6_Witness ==
  /\ BatchCalled /\ last.return_text /\ env.pdf_support
  /\ \E i, j \in 1..Len(last.items) :
       /\ last.items[i] = Z_PDF /\ last.outs[i].err = "" /\ EntryIsNone(i)
       /\ last.items[j] = A_PNG /\ DictGet(last.results, A_PNG) = Some("A")

SingleFileExts == SUPPORTED_IMAGE_FORMATS \cup {".pdf"}

\* nothing was processed and nothing was written by the last call
NothingDone ==
  /\ last.calls = <<>> /\ last.outs = <<>> /\ last.items = <<>>
  /\ disk = last.pre /\ ntmp = last.pretmp

\* C7: process puts every input path in exactly one of four classes, tried in
\* this order: file list (a .txt file whose first line names an existing
\* path), directory, single supported file, classification failure; it hands
\* the first three to process_file_list, process_directory and process_file,
\* and an input of none of them raises ValueError with no item processed.
C7_Classification ==
  last.op = "process"
    => /\ last.cls \in {"file_list", "directory", "file", "fail"}
       /\ IsDir(last.pre, last.path)
            => /\ last.cls = "directory" /\ last.err = "" /\ last.route = ""
               /\ Range(last.items) \subseteq FilesUnder(last.pre, last.path, last.recursive)
               /\ Len(last.outs) = Len(last.items)
       /\ (IsFile(last.pre, last.path) /\ Lower(Suffix(last.path)) \in SingleFileExts)
            => /\ last.cls = "file" /\ last.route \in {"image", "pdf"}
               /\ last.items = <<>>
       /\ (/\ IsFile(last.pre, last.path) /\ Lower(Suffix(last.path)) = ".txt"
           /\ last.pre[last.path].lines # <<>>
           /\ Exists(last.pre, last.pre[last.path].lines[1]))
            => /\ last.cls = "file_list" /\ last.err = "" /\ last.route = ""
               /\ last.items = SelectSeq(last.pre[last.path].lines, LAMBDA l : l # <<>>)
               /\ Len(last.outs) = Len(last.items)
       /\ (\/ ~Exists(last.pre, last.path)
           \/ /\ IsFile(last.pre, last.path)
              /\ Lower(Suffix(last.path)) \notin SingleFileExts
              /\ ~(/\ Lower(Suffix(last.path)) = ".txt"
                   /\ last.pre[last.path].lines # <<>>
                   /\ Exists(last.pre, last.pre[last.path].lines[1])))
            => /\ last.cls = "fail" /\ last.err = "ValueError" /\ last.ret = None
               /\ NothingDone

\* a file of unsupported extension is refused with nothing processed
C7_Witness ==
  /\ last.op = "process" /\ last.path = C_XYZ
  /\ last.cls = "fail" /\ last.err = "ValueError" /\ NothingDone

\* C8: a .txt input of process is a file list whenever its first non-empty
\* line names an existing path, blank lines before that line included; its
\* non-empty lines are then the items.
C8_BlankLinesBeforeFirstPath ==
  (/\ last.op = "process"
   /\ IsFile(last.pre, last.path) /\ Lower(Suffix(last.path)) = ".txt"
   /\ FilePaths(last.pre, last.path) # <<>>
   /\ Exists(last.pre, FilePaths(last.pre, last.path)[1]))
    => /\ last.cls = "file_list"
       /\ last.items = FilePaths(last.pre, last.path)

\* the output directory process_file is to resolve: explicit, else the
\* instance default, else None
WantedOutDir ==
  IF last.output_dir # None THEN last.output_dir
  ELSE IF ocr.default_output_dir # None THEN ocr.default_output_dir ELSE None

WantedConfig == IF last.config # None THEN last.config[1] ELSE ocr.default_config

\* the engine command cmd asks for a searchable PDF
AsksPdf(cmd) == \E k \in 4..Len(cmd) : cmd[k] = Tok("pdf")

\* every engine run of the last call wrote under the wanted output directory
\* (under the temporary root when there is none) in the wanted language, and
\* every run but the forced text re-run asks for a PDF as the wanted
\* configuration says
RunsAsResolved ==
  \A k \in 1..Len(last.calls) :
    /\ IF WantedOutDir # None THEN IsPrefix(WantedOutDir[1], last.calls[k][3])
       ELSE IsPrefix(TMP_ROOT, last.calls[k][3])
    /\ ~IsForcedTextRun(last.calls[k])
         => (AsksPdf(last.calls[k]) <=> WantedConfig.output_pdf)
    /\ last.calls[k][5] = Tok(WantedConfig.lang)

\* C9: process_file resolves the output directory (explicit, else instance
\* default, else none) and the configuration (explicit, else instance
\* default); a nonexistent input raises FileNotFoundError, a .pdf goes to the
\* PDF pipeline, a supported image to the image processor, anything else
\* raises ValueError; the two errors run no engine and write nothing.
C9_ProcessFile ==
  last.op = "process_file"
    => /\ ~Exists(last.pre, last.path)
            => /\ last.err = "FileNotFoundError" /\ last.route = "notfound"
               /\ NothingDone
       /\ (Exists(last.pre, last.path) /\ Lower(Suffix(last.path)) \notin SingleFileExts)
            => /\ last.err = "ValueError" /\ last.route = "unsupported"
               /\ NothingDone
       /\ (Exists(last.pre, last.path) /\ Lower(Suffix(last.path)) = ".pdf")
            => /\ last.route = "pdf"
               /\ \A k \in 1..Len(last.calls) : IsPrefix(TMP_ROOT, last.calls[k][2])
               /\ env.pdf_support
                    => Len(last.calls) \in {0, Len(last.pre[last.path].pages)}
               /\ ~env.pdf_support => last.err = "RuntimeError" /\ NothingDone
       /\ (Exists(last.pre, last.path)
           /\ Lower(Suffix(last.path)) \in SUPPORTED_IMAGE_FORMATS)
            => /\ last.route = "image"
               /\ Len(last.calls) >= 1
               /\ \A k \in 1..Len(last.calls) : last.calls[k][2] = last.path
       /\ last.route \in {"pdf", "image", "unsupported"}
            => last.out_dir = WantedOutDir /\ last.cfg = Some(WantedConfig)
       /\ RunsAsResolved

\* an image processed into the instance's default output directory with the
\* instance's default configuration
C9_Witness ==
  /\ last.op = "process_file" /\ last.path = A_PNG /\ last.err = ""
  /\ last.output_dir = None /\ last.config = None
  /\ ocr.default_output_dir = Some(DFLT_DIR) /\ ocr.default_config = PdfConfig
  /\ Exists(disk, DFLT_DIR \o <<"a", ".pdf">>)

(***************************************************************************)
(* Claims about the forced re-run of _process_image (SpecImage).           *)
(***************************************************************************)
\* how the engine behaves on the image of the last call
LastBeh == last.pre[last.path].beh

\* the first engine run of the last _process_image call exited 0 and left no
\* <output base>.txt although text was requested
TxtMissingAfterRun ==
  /\ last.op = "_process_image" /\ last.return_text
  /\ LastBeh.exit = 0 /\ ~LastBeh.txt
  /\ ~Exists(last.pre, LastOutPath \o <<".txt">>)

\* C11: when the first run exits 0 and <output base>.txt is absent although
\* text was requested, _process_image runs the engine exactly once more with
\* the language flag only and reads the file again; it never raises, whatever
\* the re-run did, and returns None when the file is still absent.
C11_ForcedReRun ==
  TxtMissingAfterRun
    => /\ Len(last.calls) = 2
       /\ last.calls[2] = <<TESSERACT, last.path, LastOutPath,
                            Tok("-l"), Tok(last.config[1].lang)>>
       /\ last.err = ""
       /\ IF LastBeh.rexit = 0 /\ LastBeh.rtxt
          THEN last.ret = Some(LastBeh.text) ELSE last.ret = None

(***************************************************************************)
(* Claims about the combined outputs of _process_pdf (SpecPdf).            *)
(***************************************************************************)
\* base: the basename override if given, else the stem of the PDF
LastBase == IF last.base # None THEN last.base[1] ELSE Stem(last.path)

\* the last call was a packaged _process_pdf with combine_output and an
\* output directory that returned, nothing being at <output_dir>/<base>.txt
\* before it
CombinedCalled ==
  /\ last.op = "_process_pdf" /\ last.err = "" /\ env.pdf_support
  /\ last.combine /\ last.output_dir # None
  /\ ~Exists(last.pre, last.output_dir[1] \o <<LastBase, ".txt">>)

LastCombinedTxt == last.output_dir[1] \o <<LastBase, ".txt">>
LastCombinedPdf == last.output_dir[1] \o <<LastBase, ".pdf">>

\* page i of pages produced text: the engine exited 0 and wrote a text file
\* that is not empty
ProducedText(pages, i) == pages[i].exit = 0 /\ pages[i].txt /\ pages[i].text # ""

RECURSIVE ProducedTexts(_, _)
\* the texts the pages i.. produced, in page order
ProducedTexts(pages, i) ==
  IF i > Len(pages) THEN <<>>
  ELSE (IF ProducedText(pages, i) THEN <<pages[i].text>> ELSE <<>>)
       \o ProducedTexts(pages, i + 1)

\* C12: after _process_pdf with combine_output and an output directory, the
\* combined text file <output_dir>/<base>.txt exists iff at least one page
\* produced text; it holds the texts the pages produced joined with a blank
\* line in page order, the string the call returns when return_text is true;
\* it is written whatever return_text is; base is the basename override if
\* given, else the stem of the PDF.
C12_CombinedText ==
  CombinedCalled
    => /\ Exists(disk, LastCombinedTxt) <=> ProducedTexts(LastPages, 1) # <<>>
       /\ Exists(disk, LastCombinedTxt)
            => /\ disk[LastCombinedTxt].kind = "txt"
               /\ disk[LastCombinedTxt].text = JoinText(ProducedTexts(LastPages, 1))
               /\ last.return_text => last.ret = Some(disk[LastCombinedTxt].text)

\* two pages of text combined under the basename override, text not asked for
C12_Witness ==
  /\ CombinedCalled /\ ~last.return_text /\ last.base = Some("b")
  /\ Len(LastPages) = 2 /\ \A i \in 1..2 : ProducedText(LastPages, i)
  /\ Exists(disk, LastCombinedTxt)
  /\ disk[LastCombinedTxt].text = LastPages[1].text \o "\n\n" \o LastPages[2].text

\* no page of pages makes the engine exit non-zero
NoPageFails(pages) == \A i \in 1..Len(pages) : pages[i].exit = 0

\* the last call was a packaged _process_pdf that was to combine the text and
\* the searchable PDFs of a PDF none of whose pages fails, nothing being at
\* <output_dir>/<base>.txt before it
MergeCalled ==
  /\ last.op = "_process_pdf" /\ env.pdf_support
  /\ last.combine /\ last.output_dir # None /\ last.config[1].output_pdf
  /\ Len(LastPages) >= 1 /\ NoPageFails(LastPages)
  /\ ~Exists(last.pre, LastCombinedTxt)

\* C13: in _process_pdf with combine_output, an output directory and
\* output_pdf, the call returns without raising whether the merge tool is
\* there, absent or raising; the combined text file holds the full joined
\* text, and the return value is the one of a successful merge: it depends on
\* the pages and on return_text only.  The merged PDF is there when the tool
\* works and is not when the tool is absent.
C13_MergeFailureNotFatal ==
  MergeCalled
    => /\ last.err = ""
       /\ last.ret = IF last.return_text
                     THEN Some(JoinText(ProducedTexts(LastPages, 1))) ELSE None
       /\ ProducedTexts(LastPages, 1) # <<>>
            => /\ Exists(disk, LastCombinedTxt)
               /\ disk[LastCombinedTxt].text = JoinText(ProducedTexts(LastPages, 1))
               /\ env.pypdf2 = "ok" => Exists(disk, LastCombinedPdf)
               /\ env.pypdf2 = "absent" => ~Exists(disk, LastCombinedPdf)

\* the merge raises and the call still returns the text of both pages
C13_Witness ==
  /\ MergeCalled /\ env.pypdf2 = "raises" /\ last.return_text
  /\ Len(LastPages) = 2 /\ \A i \in 1..2 : ProducedText(LastPages, i)
  /\ last.err = "" /\ last.ret = Some(disk[LastCombinedTxt].text)

\* the searchable PDF of page n of the last call, in the page directory
LastPagePdf(n) ==
  last.output_dir[1]
  \o <<"pages", LastBase, LastBase \o "_page_" \o NatStr(n), ".pdf">>

RECURSIVE ExistingPagePdfs(_)
\* the per-page PDFs of the pages n..N that exist on disk, in page order
ExistingPagePdfs(n) ==
  IF n > Len(LastPages) THEN <<>>
  ELSE (IF Exists(disk, LastPagePdf(n)) THEN <<LastPagePdf(n)>> ELSE <<>>)
       \o ExistingPagePdfs(n + 1)

\* C14: with combine_output, output_pdf and an output directory, the PDFs
\* merged into <output_dir>/<base>.pdf are exactly the per-page searchable
\* PDFs that exist on disk, over the pages 1..N in page order, whether or not
\* a page produced text.
C14_MergedPagePdfs ==
  (/\ CombinedCalled /\ last.config[1].output_pdf /\ env.pypdf2 = "ok"
   /\ Exists(disk, LastCombinedPdf))
    => disk[LastCombinedPdf].lines = ExistingPagePdfs(1)

(***************************************************************************)
(* Claims about the page artifacts of a batch (SpecBatch).                 *)
(***************************************************************************)
\* the engine runs of the last call on rasterized page images; the page
\* images of one document lie in the temporary directory of its pipeline
PageRuns ==
  {k \in 1..Len(last.calls) :
     IsPrefix(TMP_ROOT, last.calls[k][2]) /\ ~IsForcedTextRun(last.calls[k])}

\* C15: in a batch with combine_output and an output directory, the pages of
\* each PDF are written under <output_dir>/pages/<base>/ as <base>_page_<n>,
\* and no two distinct PDFs write a page artifact to the same path, PDFs of
\* the same stem in different directories included.
C15_NoPageCollision ==
  (BatchCalled /\ last.combine /\ WantedOutDir # None)
    => \A k, l \in PageRuns :
         /\ IsPrefix(WantedOutDir[1] \o <<"pages">>, last.calls[k][3])
         /\ last.calls[k][3] = last.calls[l][3]
              => Parent(last.calls[k][2]) = Parent(last.calls[l][2])

(***************************************************************************)
(* Claims about the temporary directory of the PDF pipeline (SpecPdf).     *)
(***************************************************************************)
\* the temporary directory the last _process_pdf call made for the page images
LastPagesTmp == TMP_ROOT \o <<"tmp" \o NatStr(last.pretmp + 1)>>

\* the last call was a packaged _process_pdf that got as far as making its
\* temporary directory
PipelineRan ==
  /\ last.op = "_process_pdf" /\ env.pdf_support /\ Len(LastPages) >= 1

\* C16: the temporary directory with the page images page_1.png..page_N.png
\* is gone when _process_pdf returns or raises: on the normal return, when
\* the engine fails on a page, and when writing the combined outputs fails.
C16_PagesTmpRemoved ==
  PipelineRan
    => /\ ntmp > last.pretmp
       /\ \A p \in DOMAIN disk : ~IsPrefix(LastPagesTmp, p)
       /\ \A k \in 1..Len(last.calls) :
            IsPrefix(LastPagesTmp, last.calls[k][2])

\* writing the combined text failed after both pages were processed
C16_Witness ==
  /\ PipelineRan /\ last.err = "IsADirectoryError"
  /\ Len(last.calls) = 2 /\ ~Exists(disk, LastPagesTmp)

(***************************************************************************)
(* Claims about TesseractConfig.to_cmd_args (SpecConfig).                  *)
(***************************************************************************)
RECURSIVE Words(_)
\* the whitespace-separated words of a config_string, in order
Words(cs) ==
  IF cs = <<>> THEN <<>>
  ELSE (IF Head(cs) = " " THEN <<>> ELSE <<<<Head(cs)>>>>) \o Words(Tail(cs))

\* C17: to_cmd_args returns, in this order, '-l', lang, '--psm', str(psm),
\* '--oem', str(oem), the whitespace-split tokens of config_string as they
\* are, 'pdf' iff output_pdf, and '--tessdata-dir', dir iff tessdata_dir is
\* set (to a non-empty string); the call changes no field of the
\* configuration.
C17_ToCmdArgs ==
  last.op = "to_cmd_args"
    => /\ last.calls[1] =
            <<<<"-l">>, <<last.config[1].lang>>,
              <<"--psm">>, <<NatStr(last.config[1].psm)>>,
              <<"--oem">>, <<NatStr(last.config[1].oem)>>>>
            \o Words(last.config[1].config_string)
            \o (IF last.config[1].output_pdf THEN <<<<"pdf">>>> ELSE <<>>)
            \o (IF last.config[1].tessdata_dir \notin {None, Some(<<"">>)}
                THEN <<<<"--tessdata-dir">>, last.config[1].tessdata_dir[1]>>
                ELSE <<>>)
       /\ last.cfg = last.config
       /\ ocr.default_config = last.config[1]

\* every optional part is present: two extra tokens between blanks, the
\* format token and the data directory
C17_Witness ==
  /\ last.op = "to_cmd_args"
  /\ last.config[1].config_string = <<" ", "-c", " ", " ", "x=1", " ">>
  /\ last.config[1].output_pdf /\ last.config[1].tessdata_dir = Some(<<"td">>)
  /\ last.config[1].psm = 13
  /\ Len(last.calls[1]) = 11
  /\ last.calls[1][4] = <<"13">>
  /\ SubSeq(last.calls[1], 7, 11)
       = <<<<"-c">>, <<"x=1">>, <<"pdf">>, <<"--tessdata-dir">>, <<"td">>>>

(***************************************************************************)
(* Claims about repeated calls of _process_image (SpecImage).              *)
(***************************************************************************)
\* the call now made is a _process_image with an explicit output directory
\* that repeats the call before it: same image, configuration, basename,
\* output directory and return_text
RepeatsLastCall ==
  /\ last.op = "_process_image" /\ last'.op = "_process_image"
  /\ last.output_dir # None
  /\ last'.path = last.path /\ last'.output_dir = last.output_dir
  /\ last'.config = last.config /\ last'.base = last.base
  /\ last'.return_text = last.return_text

\* C18: a _process_image call that repeats the call before it, with an
\* explicit output directory, leaves the files the first call left: it writes
\* to the same output base path <output_dir>/<basename or image stem>, and
\* creates and removes no file.
C18_Idempotent ==
  [][RepeatsLastCall
       => /\ disk' = disk
          /\ last'.calls[1][3] = last.calls[1][3]
          /\ last'.calls[1][3]
               = last.output_dir[1]
                 \o <<IF last.base # None THEN last.base[1] ELSE Stem(last.path)>>]_vars

\* a second call found the text and the PDF of the call before it at its
\* output base path and left the disk as it was
C18_Witness ==
  /\ ncall = 2 /\ BothRequested /\ last.output_dir # None
  /\ Exists(last.pre, LastOutPath \o <<".txt">>)
  /\ Exists(last.pre, LastOutPath \o <<".pdf">>)
  /\ disk = last.pre

(***************************************************************************)
(* Claims about the value _process_pdf returns (SpecPdf).                  *)
(***************************************************************************)
\* the engine command cmd asks for a text file by name
AsksTxt(cmd) == \E k \in 4..Len(cmd) : cmd[k] = Tok("txt")

\* C19: for a PDF of N >= 1 pages, _process_pdf returns a text iff
\* return_text is true, and None otherwise, also when combine_output made it
\* ask the single-image processor for the text of every page: the text of a
\* page is asked for exactly when return_text or combine_output is true
\* (seen in the first engine run of a page, which names the txt format beside
\* pdf exactly then).
C19_ReturnsTextIffAsked ==
  (/\ last.op = "_process_pdf" /\ env.pdf_support /\ last.err = ""
   /\ Len(LastPages) >= 1)
    => /\ last.ret # None <=> last.return_text
       /\ \A k \in 1..Len(last.calls) :
            (last.config[1].output_pdf /\ ~IsForcedTextRun(last.calls[k]))
              => (AsksTxt(last.calls[k]) <=> (last.return_text \/ last.combine))

\* text asked of both pages for the combination, none returned
C19_Witness ==
  /\ last.op = "_process_pdf" /\ env.pdf_support /\ last.err = ""
  /\ ~last.return_text /\ last.combine /\ last.config[1].output_pdf
  /\ Len(LastPages) = 2 /\ Len(last.calls) = 2
  /\ AsksTxt(last.calls[1]) /\ AsksTxt(last.calls[2])
  /\ last.ret = None

(***************************************************************************)
(* Claims about the configuration as a value (SpecBatch).                  *)
(***************************************************************************)
\* the configuration in effect in the call recorded in l, on instance o
ConfigInEffect(l, o) == IF l.config # None THEN l.config[1] ELSE o.default_config

\* C20: no processing operation (process, process_file, process_directory,
\* process_file_list and, under them, _process_image and _process_pdf)
\* changes the default configuration of the instance or the configuration it
\* was given: the instance is the same after every call, and from the first
\* item of a call to the last every engine run is made with the language
\* and the PDF format of the one configuration in effect.
C20_ConfigUnchanged ==
  [][/\ ocr' = ocr
     /\ \A k \in 1..Len(last'.calls) :
          /\ last'.calls[k][5] = Tok(ConfigInEffect(last', ocr').lang)
          /\ ~IsForcedTextRun(last'.calls[k])
               => (AsksPdf(last'.calls[k]) <=> ConfigInEffect(last', ocr').output_pdf)]_vars

\* a batch of several engine runs under a configuration that differs from
\* the instance default, which is still the one of construction
C20_Witness ==
  /\ last.op \in BatchOps /\ last.config = Some(PdfConfig)
  /\ ocr.default_config = DefaultConfig
  /\ Len(last.calls) >= 3
  /\ \A k \in 1..Len(last.calls) : AsksPdf(last.calls[k])

(***************************************************************************)
(* Claims about a missing rasterizer (SpecBatch).                          *)
(***************************************************************************)
\* p is an existing file with a .pdf extension, in any case
IsPdfInput(d, p) == Exists(d, p) /\ Lower(Suffix(p)) = ".pdf"

\* p is an existing file with a supported image extension
IsImageInput(d, p) == Exists(d, p) /\ Lower(Suffix(p)) \in SUPPORTED_IMAGE_FORMATS

\* C21: with the rasterizer unavailable the instance is constructed all the
\* same (its default output directory made) and images are processed as
\* ever; every attempt to process a PDF raises the capability error before
\* any rasterization, engine run or creation of a file or directory; in a
\* batch the PDF is recorded with None and the other items are processed.
C21_NoRasterizer ==
  ~env.pdf_support
    => /\ ocr.default_output_dir # None => IsDir(disk, ocr.default_output_dir[1])
       /\ \A k \in 1..Len(last.calls) : ~IsPrefix(TMP_ROOT, last.calls[k][2])
       /\ (last.op = "process_file" /\ IsPdfInput(last.pre, last.path))
            => /\ last.err = "RuntimeError" /\ last.ret = None
               /\ last.route = "pdf" /\ NothingDone
       /\ (last.op = "process_file" /\ IsImageInput(last.pre, last.path))
            => /\ last.route = "image" /\ Len(last.calls) >= 1
               /\ last.err = "" <=> LastBeh.exit = 0
               /\ (last.return_text /\ LastBeh.exit = 0 /\ LastBeh.txt)
                    => last.ret = Some(LastBeh.text)
       /\ BatchCalled
            => /\ last.err = "" /\ Len(last.outs) = Len(last.items)
               /\ \A i \in 1..Len(last.items) :
                    /\ IsPdfInput(last.pre, last.items[i])
                         => /\ last.outs[i].err = "RuntimeError"
                            /\ EntryIsNone(i)
                    /\ IsImageInput(last.pre, last.items[i])
                         => (last.outs[i].err = ""
                               <=> last.pre[last.items[i]].beh.exit = 0)

\* a recursive scan without the rasterizer: both PDFs of in/ and in/sub/ are
\* recorded with None, the image with its text, and nothing but the image
\* went to the engine
C21_Witness ==
  /\ ~env.pdf_support /\ last.op = "process_directory" /\ last.return_text
  /\ {A_PNG, B_PDF, B_TOP_PDF} \subseteq Range(last.items)
  /\ DictGet(last.results, B_PDF) = None
  /\ DictGet(last.results, B_TOP_PDF) = None
  /\ DictGet(last.results, A_PNG) = Some("A")
  /\ Len(last.calls) = 1

(***************************************************************************)
(* Claims about config_from_string and config_from_kwargs (SpecParse).     *)
(***************************************************************************)
PairFlags == {"-l", "--psm", "--oem", "--tessdata-dir"}

RECURSIVE Kinds(_)
\* what each word of a string is, read from the left: a flag with the value
\* after it, the format word, or an extra word
Kinds(ws) ==
  IF ws = <<>> THEN <<>>
  ELSE IF Head(ws) \in PairFlags /\ Len(ws) >= 2
  THEN <<"flag", "value">> \o Kinds(Tail(Tail(ws)))
  ELSE IF Head(ws) = "pdf" THEN <<"pdf">> \o Kinds(Tail(ws))
  ELSE <<"extra">> \o Kinds(Tail(ws))

\* the words of the string given to the last call
GivenWords == SelectSeq(last.config_string, LAMBDA a : a # " ")

\* the positions where the flag f is given with a value
GivenAt(f) ==
  {i \in 1..Len(GivenWords) : Kinds(GivenWords)[i] = "flag" /\ GivenWords[i] = f}

\* the value of the last occurrence of the flag f, or the default dflt
GivenValue(f, dflt) ==
  IF GivenAt(f) = {} THEN dflt
  ELSE GivenWords[(CHOOSE i \in GivenAt(f) : \A j \in GivenAt(f) : j <= i) + 1]

RECURSIVE ExtraWords(_, _)
\* the extra words, in the order of the string
ExtraWords(ws, ks) ==
  IF ws = <<>> THEN <<>>
  ELSE (IF Head(ks) = "extra" THEN <<Head(ws)>> ELSE <<>>)
       \o ExtraWords(Tail(ws), Tail(ks))

\* some --psm or --oem is given a value that is no number
BadNumber ==
  \E f \in {"--psm", "--oem"} : \E i \in GivenAt(f) : ~IsNumeral(GivenWords[i + 1])

\* C22: config_from_string reads the pairs '-l X', '--psm N', '--oem N',
\* '--tessdata-dir D' and the bare word 'pdf', in any order, into lang, psm,
\* oem, tessdata_dir and output_pdf, the last occurrence of a flag winning;
\* fields not mentioned keep their defaults; every other word, a flag left
\* without a value at the end included, goes to config_string in the order
\* of the input, one blank apart.  (A --psm or --oem value that is no number
\* is the only input that raises.)
C22_ConfigFromString ==
  last.op = "config_from_string"
    => /\ last.err = (IF BadNumber THEN "ValueError" ELSE "")
       /\ last.err = ""
            => /\ last.cfg # None
               /\ last.cfg[1].lang = GivenValue("-l", "eng")
               /\ last.cfg[1].psm = PyInt(GivenValue("--psm", "3"))[1]
               /\ last.cfg[1].oem = PyInt(GivenValue("--oem", "3"))[1]
               /\ last.cfg[1].tessdata_dir =
                    (IF GivenAt("--tessdata-dir") = {} THEN None
                     ELSE Some(<<GivenValue("--tessdata-dir", "")>>))
               /\ last.cfg[1].output_pdf = ("pdf" \in Range(Kinds(GivenWords)))
               /\ last.cfg[1].dpi = 300
               /\ last.cfg[1].config_string
                    = JoinWords(ExtraWords(GivenWords, Kinds(GivenWords)))

\* a repeated flag, the format word and a flag left without a value
C22_Witness ==
  /\ last.op = "config_from_string"
  /\ last.config_string = <<"--psm", " ", "01", " ", "--psm", " ", "6", " ", "pdf", " ", "-l">>
  /\ last.cfg = Some(Config("eng", 300, 6, 3, <<"-l">>, TRUE, None))

\* C23: config_from_kwargs returns a configuration in which every keyword
\* that names a field has the value given, every field not given has its
\* default (lang 'eng', dpi 300, psm 3, oem 3, empty config_string,
\* output_pdf false, no tessdata_dir), and a keyword that names no field is
\* ignored without an error.
C23_ConfigFromKwargs ==
  last.op = "config_from_kwargs"
    => /\ last.err = ""
       /\ last.cfg # None
       /\ DOMAIN last.cfg[1] =
            {"lang", "dpi", "psm", "oem", "config_string", "output_pdf", "tessdata_dir"}
       /\ \A k \in DOMAIN last.kwargs \cap DOMAIN last.cfg[1] :
            last.cfg[1][k] = last.kwargs[k]
       /\ "lang" \notin DOMAIN last.kwargs => last.cfg[1].lang = "eng"
       /\ "dpi" \notin DOMAIN last.kwargs => last.cfg[1].dpi = 300
       /\ "psm" \notin DOMAIN last.kwargs => last.cfg[1].psm = 3
       /\ "oem" \notin DOMAIN last.kwargs => last.cfg[1].oem = 3
       /\ "config_string" \notin DOMAIN last.kwargs => last.cfg[1].config_string = <<>>
       /\ "output_pdf" \notin DOMAIN last.kwargs => last.cfg[1].output_pdf = FALSE
       /\ "tessdata_dir" \notin DOMAIN last.kwargs => last.cfg[1].tessdata_dir = <<>>

\* the keywords of the test and one that names no field
C23_Witness ==
  /\ last.op = "config_from_kwargs"
  /\ DOMAIN last.kwargs = {"lang", "psm", "oem", "output_pdf", "verbose"}
  /\ last.err = ""
  /\ last.cfg = Some(Config("jpn", 300, 7, 2, <<>>, TRUE, <<>>))
  /\ last.kwargs.verbose = "jpn"

(***************************************************************************)
(* Claims about the command of _process_image (SpecCmd).                   *)
(***************************************************************************)
\* the tokens of the configuration of the last call without its own format
\* token: language, modes, extra tokens, data directory
OwnTokensNoFormat ==
  <<<<"-l">>, <<last.config[1].lang>>,
    <<"--psm">>, <<NatStr(last.config[1].psm)>>,
    <<"--oem">>, <<NatStr(last.config[1].oem)>>>>
  \o Words(last.config[1].config_string)
  \o (IF last.config[1].tessdata_dir \notin {None, Some(<<"">>)}
      THEN <<<<"--tessdata-dir">>, last.config[1].tessdata_dir[1]>> ELSE <<>>)

\* the format tokens the last call asks for
WantedFormats ==
  IF ~last.config[1].output_pdf THEN <<>>
  ELSE IF last.return_text THEN <<<<"pdf">>, <<"txt">>>> ELSE <<<<"pdf">>>>

\* C24: the command _process_image passes to the engine is the engine, the
\* input image and the output base, then the tokens of the configuration
\* other than its own format token 'pdf', unchanged and in order, then the
\* format tokens (none, 'pdf', or 'pdf' and 'txt'); dropping the format
\* token leaves the input path, the output base and the value of every
\* other flag as they are, also when one of them reads 'pdf'.
C24_Command ==
  last.op = "_process_image"
    => /\ Len(last.calls) >= 1
       /\ last.calls[1] = <<<<"tesseract">>, last.path, LastOutPath>>
                          \o OwnTokensNoFormat \o WantedFormats

(***************************************************************************)
(* Claims about the order of a batch (SpecBatch).                          *)
(***************************************************************************)
\* the engine runs, among the first of cmds, that processing the one item
\* file_path made: the run on an image and its forced re-run, or the runs
\* on the page images of one rasterization of a PDF
RunsOf(cmds, file_path) ==
  IF cmds = <<>> THEN 0
  ELSE IF cmds[1][2] = file_path
  THEN IF Len(cmds) >= 2 /\ cmds[2][2] = file_path /\ IsForcedTextRun(cmds[2])
       THEN 2 ELSE 1
  ELSE IF /\ Lower(Suffix(file_path)) = ".pdf" /\ IsPrefix(TMP_ROOT, cmds[1][2])
          /\ cmds[1][3][Len(cmds[1][3])] = Stem(file_path) \o "_page_1"
  THEN Cardinality({k \in 1..Len(cmds) :
                      \A j \in 1..k : Parent(cmds[j][2]) = Parent(cmds[1][2])})
  ELSE 0

\* the runs cmds of one item are those of one call of process_file on it:
\* one first run of an image; the pages of a PDF in page order, each once
OneCallOf(cmds, file_path) ==
  LET first == SelectSeq(cmds, LAMBDA c : ~IsForcedTextRun(c))
  IN /\ IsImageInput(last.pre, file_path) => Len(first) = 1
     /\ (IsPdfInput(last.pre, file_path) /\ last.pre[file_path].kind = "pdf")
          => /\ Len(first) <= Len(last.pre[file_path].pages)
             /\ \A j \in 1..Len(first) :
                  first[j][3][Len(first[j][3])]
                    = Stem(file_path) \o "_page_" \o NatStr(j)
     /\ (~IsImageInput(last.pre, file_path) /\ ~IsPdfInput(last.pre, file_path))
          => cmds = <<>>

RECURSIVE RunsFollowItems(_, _)
\* the engine runs cmds are those of the items from the i-th on, item after
\* item
RunsFollowItems(cmds, i) ==
  IF i > Len(last.items) THEN cmds = <<>>
  ELSE /\ OneCallOf(SubSeq(cmds, 1, RunsOf(cmds, last.items[i])), last.items[i])
       /\ RunsFollowItems(SubSeq(cmds, RunsOf(cmds, last.items[i]) + 1, Len(cmds)), i + 1)

\* the positions of the items that get a key: all of them when text is
\* returned, else those whose processing raised
Keyed == {i \in 1..Len(last.outs) : last.return_text \/ last.outs[i].err # ""}

\* the positions among Keyed at which a path gets its key
FirstKeyed == {i \in Keyed : \A j \in Keyed : j < i => last.items[j] # last.items[i]}

\* C25: process_directory and process_file_list call process_file exactly
\* once per discovered item, in the order of discovery, the engine runs of an
\* item (and of each page) ending before those of the next begin; the keys
\* of the mapping returned are in the order in which the items were
\* discovered, with no sorting or re-ordering.
C25_DiscoveryOrder ==
  BatchCalled
    => /\ [i \in 1..Len(last.outs) |-> last.outs[i].path] = last.items
       /\ RunsFollowItems(last.calls, 1)
       /\ Len(last.results) = Cardinality(FirstKeyed)
       /\ \A a, b \in 1..Len(last.results) :
            a < b => \E i, j \in FirstKeyed :
                        /\ i < j
                        /\ last.items[i] = last.results[a][1]
                        /\ last.items[j] = last.results[b][1]

\* a list that names an image twice and a two-page PDF, with text returned
C25_Witness ==
  /\ last.op = "process_file_list" /\ last.path = L1 /\ last.return_text
  /\ env.pdf_support
  /\ last.items = <<A_PNG, MISSING, BAD_PNG, C_XYZ, B_PDF, A_PNG>>
  /\ [i \in 1..Len(last.results) |-> last.results[i][1]]
       = <<A_PNG, MISSING, BAD_PNG, C_XYZ, B_PDF>>
  /\ Len(last.calls) = 5
  /\ last.calls[1][2] = A_PNG /\ last.calls[2][2] = BAD_PNG /\ last.calls[5][2] = A_PNG

(***************************************************************************)
(* Claims about the discovery of process_directory (SpecBatch).            *)
(***************************************************************************)
\* the extensions the claim lets the last call of process_directory take:
\* those given, or with none given the supported image ones and .pdf
ClaimedExtensions ==
  IF last.exts # None THEN last.exts[1]
  ELSE {".png", ".jpg", ".jpeg", ".tiff", ".tif", ".bmp", ".gif", ".pdf"}

\* C26: given an explicit extension set, process_directory discovers exactly
\* the files (directly in the directory, or at any depth when recursive)
\* whose lower-cased extension is in the set; only with no set given does
\* it discover the files with a supported image extension or .pdf; a set
\* that is given, the empty set too, is never replaced by the default set.
C26_ExplicitExtensions ==
  (last.op = "process_directory" /\ IsDir(last.pre, last.path))
    => /\ Range(last.items)
            = {p \in FilesUnder(last.pre, last.path, last.recursive) :
                 Lower(Suffix(p)) \in ClaimedExtensions}
       /\ Len(last.items) = Cardinality(Range(last.items))

(***************************************************************************)
(* Claims about a page the engine fails on (SpecPdf).                      *)
(***************************************************************************)
\* the last call was a packaged _process_pdf on a document with a page on
\* which the engine exits non-zero
PageFailed ==
  /\ last.op = "_process_pdf" /\ env.pdf_support
  /\ \E k \in 1..Len(LastPages) : LastPages[k].exit # 0

\* the first such page
FailedPage ==
  CHOOSE k \in 1..Len(LastPages) :
    LastPages[k].exit # 0 /\ \A j \in 1..(k - 1) : LastPages[j].exit = 0

\* the directory the pages of the last call are written to
LastPageDir ==
  IF last.combine THEN last.output_dir[1] \o <<"pages", LastBase>>
  ELSE last.output_dir[1]

\* the artifact of page n with the extension e
LastPageFile(n, e) == LastPageDir \o <<LastBase \o "_page_" \o NatStr(n), e>>

\* C27: when the engine exits non-zero on page k of an N-page PDF,
\* _process_pdf raises that failure to its caller; the pages k+1..N are not
\* processed; no combined text file and no merged PDF are written; what the
\* pages 1..k-1 wrote, and the page directory of the document, stay on disk.
C27_PageFailure ==
  PageFailed
    => /\ last.err = "RuntimeError" /\ last.ret = None
       /\ \A c \in 1..Len(last.calls) :
            \E j \in 1..FailedPage : last.calls[c][2] = PageImage(LastPagesTmp, j)
       /\ \A j \in 1..FailedPage :
            \E c \in 1..Len(last.calls) : last.calls[c][2] = PageImage(LastPagesTmp, j)
       /\ last.calls[Len(last.calls)][2] = PageImage(LastPagesTmp, FailedPage)
       /\ \A p \in DOMAIN last.pre : Exists(disk, p) /\ disk[p] = last.pre[p]
       /\ last.output_dir # None
            => /\ \A p \in {LastCombinedTxt, LastCombinedPdf} :
                    Exists(disk, p) => Exists(last.pre, p)
               /\ last.combine => IsDir(disk, LastPageDir)
               /\ \A j \in 1..(FailedPage - 1) :
                    /\ last.config[1].output_pdf => IsFile(disk, LastPageFile(j, ".pdf"))
                    /\ (/\ LastPages[j].txt
                        /\ (last.config[1].output_pdf => (last.return_text \/ last.combine)))
                         => /\ IsFile(disk, LastPageFile(j, ".txt"))
                            /\ disk[LastPageFile(j, ".txt")].text = LastPages[j].text

\* the engine fails on the second of two pages, the first one written as a
\* searchable PDF and a text file into the page directory
C27_Witness ==
  /\ PageFailed /\ FailedPage = 2 /\ LastPages[1] = BehOk("A")
  /\ last.combine /\ last.output_dir = Some(OUT_DIR) /\ last.config[1].output_pdf
  /\ last.base = None
  /\ last.err = "RuntimeError"
  /\ Len(last.calls) = 2
  /\ IsFile(disk, OUT_DIR \o <<"pages", "doc", "doc_page_1", ".pdf">>)
  /\ IsFile(disk, OUT_DIR \o <<"pages", "doc", "doc_page_1", ".txt">>)
  /\ ~Exists(disk, OUT_DIR \o <<"doc", ".txt">>)
  /\ ~Exists(disk, OUT_DIR \o <<"doc", ".pdf">>)

(***************************************************************************)
(* Claims about config_from_string on the tokens of to_cmd_args            *)
(* (SpecConfig).                                                           *)
(***************************************************************************)
ReservedWords == {<<"-l">>, <<"--psm">>, <<"--oem">>, <<"--tessdata-dir">>, <<"pdf">>}

\* the last call parsed the joined tokens of a configuration none of whose
\* extra tokens is a reserved word
RoundTripped ==
  /\ last.op = "config_from_string" /\ last.config # None
  /\ \A w \in Range(Words(last.config[1].config_string)) : w \notin ReservedWords

\* the configuration parsed has the language, modes, format flag, data
\* directory and extra tokens of the one the tokens came from, and the
\* default dpi
SameAsGiven ==
  /\ last.err = "" /\ last.cfg # None
  /\ last.cfg[1].lang = last.config[1].lang
  /\ last.cfg[1].psm = last.config[1].psm
  /\ last.cfg[1].oem = last.config[1].oem
  /\ last.cfg[1].output_pdf = last.config[1].output_pdf
  /\ last.cfg[1].tessdata_dir = last.config[1].tessdata_dir
  /\ Words(last.cfg[1].config_string) = Words(last.config[1].config_string)
  /\ last.cfg[1].dpi = 300

\* C28 as stated: for every configuration whose config_string tokens are
\* none of '-l', '--psm', '--oem', '--tessdata-dir', 'pdf' and whose lang and
\* tessdata_dir contain no whitespace, config_from_string of the space-joined
\* to_cmd_args tokens has the same lang, psm, oem, output_pdf, tessdata_dir
\* and config_string tokens, and the default dpi.
C28_RoundTripAnyConfig == RoundTripped => SameAsGiven

\* C28, amended: the same, for the configurations whose lang is moreover not
\* empty and whose tessdata_dir is unset or not empty.
C28_RoundTrip ==
  (/\ RoundTripped
   /\ last.config[1].lang # ""
   /\ last.config[1].tessdata_dir # Some(<<"">>))
    => SameAsGiven

\* every part of the configuration is given and comes back, the dpi as 300
C28_Witness ==
  /\ RoundTripped
  /\ last.config[1] = Config("jpn+eng", 600, 13, 1, <<" ", "-c", " ", " ", "x=1", " ">>,
                             TRUE, Some(<<"td">>))
  /\ last.config_string = <<"-l", " ", "jpn+eng", " ", "--psm", " ", "13", " ",
                            "--oem", " ", "1", " ", "-c", " ", "x=1", " ", "pdf", " ",
                            "--tessdata-dir", " ", "td">>
  /\ last.cfg = Some(Config("jpn+eng", 300, 13, 1, <<"-c", " ", "x=1">>, TRUE,
                            Some(<<"td">>)))
====
